---- MODULE Spec2Model ----
\* LocPlaceBot: the location resolution core.
\*   - SearchChain (src/src/loc/mod.rs): ordered provider fallback
\*   - resolve_locations (src/src/handlers/mod.rs): coordinate short-circuit
\*   - RequestsLimiter (src/src/handlers/limiter.rs): INCR+EXPIRE rate limiter
\*   - caching client and RedisCacheManager (src/src/loc/cache.rs): response cache
EXTENDS Integers, Sequences, FiniteSets, TLC

VARIABLES
    \* process environment, read by unwrap_if_not_disabled
    env,
    \* SearchChain { global_finders, regional_finders }
    chainBuilt, global_finders, regional_finders,
    \* the wrapper lists new and for_lang_code were called with (history)
    new_input, lang_input,
    \* one running SearchChain::find: position, arguments, iterator, result
    fpc, flang, futures, inflight, invoked, outcomes, result,
    \* one running resolve_locations: position, query text, returned value
    rpc, query, resolved,
    \* RequestsLimiter { max_allowed, timeframe } (the pool is the way to kv)
    max_allowed, timeframe,
    \* the shared store: per rate-limiter key the counter and its time to live
    kv,
    \* the running is_req_allowed calls, one per task
    cl,
    \* history per identity: the ordinals the store issued in the current
    \* window, the seconds since the store last executed its pipeline, the
    \* counter value the last expiry removed, and the checks of the current
    \* window that returned true
    served, quiet, expired, granted,
    \* the shared store as the response cache uses it: cache key -> bytes
    hstore,
    \* one request on its way through the caching client
    hc,
    \* the last call of RedisCacheManager: operation, key, argument, result
    mlog,
    \* history per request: how often it was sent and answered, how often the
    \* origin was contacted for it, and whether all went well so far (every
    \* store operation succeeded and the origin answered 200)
    sent, contacted, clean,
    \* history per cache key: the pair the last successful put stored, as long
    \* as nothing else touched the key
    stored,
    \* history per request: the cache key derived for it
    derived,
    \* per cache key: the seconds since the entry under it was written, which
    \* is the age its CachePolicy computes from the response time it holds
    hage,
    \* UserServiceClientGrpc { cache }: identity -> CachedUser
    cache,
    \* the profile service behind UserServiceClientGrpc { inner }
    inner,
    \* tokio::time::Instant::now(), in fractions of a second
    instant,
    \* the running calls of UserServiceClientGrpc, one per task
    ut,
    \* history: the identities for which a write has returned success and no
    \* get has started since
    invalidated,
    \* one running inline_handler: position, the InlineQuery, what the
    \* limiter returned, language code, location, resolved locations, the
    \* answer sent and the handler's result
    ih,
    \* one call of a function that keeps no state: name, arguments, value
    pf,
    \* one call of a provider adapter's find: the adapter, its mode, the
    \* sub-operations invoked so far with what each received, and the result
    ad,
    \* one running callback handler: position, the CallbackQuery, the parsed
    \* callback data, the client calls made and the bot requests sent
    cb

chainVars == <<env, chainBuilt, global_finders, regional_finders, new_input, lang_input>>
findVars == <<fpc, flang, futures, inflight, invoked, outcomes, result>>
resolveVars == <<rpc, query, resolved>>
limiterVars == <<max_allowed, timeframe, kv, cl, served, quiet, expired, granted>>
cacheVars == <<hstore, hc, mlog, sent, contacted, clean, stored, derived, hage>>
userVars == <<cache, inner, instant, ut, invalidated>>
inlineVars == <<ih>>
fnVars == <<pf>>
adapterVars == <<ad>>
callbackVars == <<cb>>
serviceVars == <<cacheVars, userVars, inlineVars, fnVars, adapterVars, callbackVars>>

\* Option::None
None == [some |-> FALSE]
Some(v) == [some |-> TRUE, value |-> v]

\* the caching client between two requests
IdleHttp == [pc |-> "idle"]

\* no call of the cache manager yet
NoCall == [op |-> "none"]

InitCacheIdle ==
    /\ hstore = <<>>
    /\ hc = IdleHttp
    /\ mlog = NoCall
    /\ sent = <<>>
    /\ contacted = <<>>
    /\ clean = <<>>
    /\ stored = <<>>
    /\ derived = <<>>
    /\ hage = <<>>

\* a task that is not calling the profile client
IdleTask == [pc |-> "idle"]

InitUsersIdle ==
    /\ cache = <<>>
    /\ inner = <<>>
    /\ instant = 0
    /\ ut = <<>>
    /\ invalidated = {}

\* no inline query is being handled
IdleHandler == [pc |-> "idle"]

InitInlineIdle == ih = IdleHandler

\* no function is being called
NoFn == [op |-> "none"]

InitFnIdle == pf = NoFn

\* no adapter call under way
NoFind == [pc |-> "idle"]
InitAdapterIdle == ad = NoFind

\* no callback being handled
NoCallback == [pc |-> "idle"]
InitCallbackIdle == cb = NoCallback

InitServicesIdle == InitCacheIdle /\ InitUsersIdle /\ InitInlineIdle /\ InitFnIdle /\ InitAdapterIdle /\ InitCallbackIdle

\* ------------------------------------------------------------------
\* Small helpers on sequences
\* ------------------------------------------------------------------
Range(s) == {s[i] : i \in 1..Len(s)}

\* s is an initial segment of t
IsPrefix(s, t) ==
    /\ Len(s) <= Len(t)
    /\ \A i \in 1..Len(s) : s[i] = t[i]

\* all sequences of pairwise distinct elements of S
RECURSIVE DistinctSeqs(_)
DistinctSeqs(S) ==
    {<<>>} \cup UNION {{<<x>> \o t : t \in DistinctSeqs(S \ {x})} : x \in S}

\* ------------------------------------------------------------------
\* Locations and provider outcomes
\* ------------------------------------------------------------------
NoAddress == "<None>"

\* Location::new
LocationNew(latitude, longitude) ==
    [address |-> NoAddress, latitude |-> latitude, longitude |-> longitude]

\* an f64 that was written in decimal: sign, integer part, fractional digits
\* (without trailing zeros)
Dec(neg, units, frac) == [neg |-> neg, units |-> units, frac |-> frac]

\* stub data as in loc/test.rs: locations with an address
StubLocation(addr) ==
    [address |-> addr, latitude |-> Dec(FALSE, 100, <<>>), longitude |-> Dec(FALSE, 50, <<>>)]

L1 == StubLocation("123456 Global Test Land")
L2 == StubLocation("123456 Russia Test Land")

\* LocResult = Result<Vec<Location>, anyhow::Error>
OkRes(locs) == [ok |-> TRUE, locs |-> locs]
ErrRes == [ok |-> FALSE, locs |-> <<>>]

\* what one provider call may answer
ProviderOutcomes == {OkRes(<<>>), OkRes(<<L1>>), OkRes(<<L2, L1>>), ErrRes}

\* ------------------------------------------------------------------
\* Providers, wrappers and the environment
\* ------------------------------------------------------------------
Finders == {"google", "osm", "yandex"}

\* the env suffix each finder is wrapped with in handlers/mod.rs
EnvSuffix(f) ==
    CASE f = "google" -> "GOOGLE"
      [] f = "osm" -> "OSM"
      [] f = "yandex" -> "YANDEX"

\* finder(env, instance) / LocFinderChainWrapper::wrap
Wrap(f) == [env_suffix |-> EnvSuffix(f), finder |-> f]

DISABLE_ENV_PREFIX == "DISABLE_FINDER_"

EnvVarName(suffix) ==
    CASE suffix = "GOOGLE" -> "DISABLE_FINDER_GOOGLE"
      [] suffix = "OSM" -> "DISABLE_FINDER_OSM"
      [] suffix = "YANDEX" -> "DISABLE_FINDER_YANDEX"

EnvNames == {EnvVarName(EnvSuffix(f)) : f \in Finders}

\* std::env::var: Err(NotPresent) or Ok(value)
NotPresent == [present |-> FALSE, value |-> ""]
Present(v) == [present |-> TRUE, value |-> v]

\* values the variables are given: the four disabling words and another one
EnvValues == {"true", "1", "yes", "y", "TRUE"}

\* the environments explored: the first variable takes every value, the other
\* two are unset or set to a disabling word
EnvSpace ==
    {e \in [EnvNames -> {NotPresent} \cup {Present(v) : v \in EnvValues}] :
        /\ e["DISABLE_FINDER_OSM"] \in {NotPresent, Present("yes")}
        /\ e["DISABLE_FINDER_YANDEX"] \in {NotPresent, Present("1")}}

\* variant: only the word "true" disables
DisablingValue_OnlyTrue(v) == v = "true"

\* the comparison of unwrap_if_not_disabled, mod.rs:123
DisablingValue(v) == v = "true" \/ v = "1" \/ v = "yes" \/ v = "y"

\* LocFinderChainWrapper::unwrap_if_not_disabled: Option as a sequence
UnwrapIfNotDisabled(w, e) ==
    LET var == e[EnvVarName(w.env_suffix)]
        disabled == IF var.present THEN DisablingValue(var.value) ELSE FALSE
    IN  IF disabled THEN <<>> ELSE <<w.finder>>

\* into_iter().filter_map(unwrap_if_not_disabled).collect()
RECURSIVE FilterMapEnabled(_, _)
FilterMapEnabled(ws, e) ==
    IF ws = <<>> THEN <<>>
    ELSE UnwrapIfNotDisabled(Head(ws), e) \o FilterMapEnabled(Tail(ws), e)

\* the wrapper lists handed to new / for_lang_code
WrapperLists == {[i \in 1..Len(s) |-> Wrap(s[i])] : s \in DistinctSeqs(Finders)}

\* language codes of queries; overrides are registered for OverrideLangs
LangCodes == {"ru", "en", "ru-RU"}
OverrideLangs == {"ru"}

EmptyMap == [l \in {} |-> <<>>]

\* ------------------------------------------------------------------
\* SearchChain construction
\* ------------------------------------------------------------------
\* SearchChain::new
New(ws) ==
    /\ ~chainBuilt
    /\ chainBuilt' = TRUE
    /\ global_finders' = FilterMapEnabled(ws, env)
    /\ regional_finders' = EmptyMap
    /\ new_input' = ws
    /\ UNCHANGED <<env, lang_input, findVars, resolveVars, limiterVars, serviceVars>>

\* entry(lc).or_insert(Vec::with_capacity(..)).append(&mut finders)
EntryAppend(map, lc, finders) ==
    [l \in DOMAIN map \cup {lc} |->
        IF l = lc
        THEN (IF lc \in DOMAIN map THEN map[lc] ELSE <<>>) \o finders
        ELSE map[l]]

\* SearchChain::for_lang_code; each language is registered once
ForLangCode(lc, ws) ==
    /\ chainBuilt
    /\ fpc = "idle"
    /\ rpc = "idle"
    /\ lc \notin DOMAIN regional_finders
    /\ regional_finders' = EntryAppend(regional_finders, lc, FilterMapEnabled(ws, env))
    /\ lang_input' = EntryAppend(lang_input, lc, ws)
    /\ UNCHANGED <<env, chainBuilt, global_finders, new_input, findVars, resolveVars, limiterVars, serviceVars>>

\* ------------------------------------------------------------------
\* SearchChain::find
\* ------------------------------------------------------------------
\* variant: an override list that is empty falls back to the global list
SelectFinders_EmptyFallsBack(lang_code) ==
    IF lang_code \in DOMAIN regional_finders /\ regional_finders[lang_code] # <<>>
    THEN regional_finders[lang_code]
    ELSE global_finders

\* self.regional_finders.get(lang_code).unwrap_or(&self.global_finders)
SelectFinders(lang_code) ==
    IF lang_code \in DOMAIN regional_finders
    THEN regional_finders[lang_code]
    ELSE global_finders

\* find is entered: the lazy iterator over the selected finders is created.
\* query and location are only handed on to the providers, whose answers are
\* arbitrary here, so they are not kept.
FindBegin(lang_code) ==
    /\ fpc' = "next"
    /\ flang' = lang_code
    /\ futures' = SelectFinders(lang_code)
    /\ inflight' = {}
    /\ invoked' = <<>>
    /\ outcomes' = <<>>
    /\ result' = <<>>

\* a direct call of SearchChain::find (as loc/test.rs does)
Find(lang_code) ==
    /\ chainBuilt
    /\ fpc = "idle"
    /\ rpc = "idle"
    /\ FindBegin(lang_code)
    /\ UNCHANGED <<chainVars, resolveVars, limiterVars, serviceVars>>

\* variant: every remaining future is started at once (a join over the list)
Polled_AllRemaining(k) == k..Len(futures)

\* the positions whose future is created and polled by one loop iteration
Polled(k) == {k}

\* `for fut in futures`: the next future is taken and awaited
FindInvoke ==
    /\ fpc = "next"
    /\ Len(invoked) < Len(futures)
    /\ LET k == Len(invoked) + 1
           started == Polled(k)
       IN  /\ inflight' = inflight \cup started
           /\ invoked' = invoked \o [i \in 1..Cardinality(started) |-> futures[k + i - 1]]
    /\ fpc' = "await"
    /\ UNCHANGED <<chainVars, flang, futures, outcomes, result, resolveVars, limiterVars, serviceVars>>

\* variant: the guard reads len() > 1
MatchOutcome_LenGtOne(res) ==
    IF res.ok /\ Len(res.locs) > 1 THEN "return" ELSE "continue"

\* variant: the Err arm leaves the loop (break) and find returns no locations
MatchOutcome_ErrBreaks(res) ==
    IF (res.ok /\ Len(res.locs) > 0) \/ ~res.ok THEN "return" ELSE "continue"

\* variant: the Err arm unwraps the error
MatchOutcome_ErrPanics(res) ==
    IF res.ok
    THEN (IF Len(res.locs) > 0 THEN "return" ELSE "continue")
    ELSE "panic"

\* the match of find's loop body: "return" leaves find with the list, "continue"
\* (and the Err arm, which only logs) goes on with the loop
MatchOutcome(res) ==
    IF res.ok /\ Len(res.locs) > 0 THEN "return" ELSE "continue"

\* the awaited provider call completes with res
FindAwait(res) ==
    /\ fpc = "await"
    /\ inflight # {}
    /\ LET k == CHOOSE i \in inflight : \A j \in inflight : i <= j
       IN  inflight' = inflight \ {k}
    /\ outcomes' = Append(outcomes, res)
    /\ CASE MatchOutcome(res) = "return" ->
              /\ fpc' = "done"
              /\ result' = res.locs
         [] MatchOutcome(res) = "continue" ->
              /\ fpc' = "next"
              /\ UNCHANGED result
         [] OTHER ->
              \* find is left without a value (an unwinding panic)
              /\ fpc' = "aborted"
              /\ UNCHANGED result
    /\ UNCHANGED <<chainVars, flang, futures, invoked, resolveVars, limiterVars, serviceVars>>

\* the iterator is exhausted: Vec::default()
FindExhausted ==
    /\ fpc = "next"
    /\ Len(invoked) >= Len(futures)
    /\ fpc' = "done"
    /\ result' = <<>>
    /\ UNCHANGED <<chainVars, flang, futures, inflight, invoked, outcomes, resolveVars, limiterVars, serviceVars>>

\* the caller of a direct find takes the result; find's locals are dropped
FindReturn ==
    /\ fpc = "done"
    /\ rpc = "idle"
    /\ fpc' = "idle"
    /\ flang' = "en"
    /\ futures' = <<>>
    /\ inflight' = {}
    /\ invoked' = <<>>
    /\ outcomes' = <<>>
    /\ result' = <<>>
    /\ UNCHANGED <<chainVars, resolveVars, limiterVars, serviceVars>>

\* ------------------------------------------------------------------
\* The shared store (Redis) as the limiter uses it
\* ------------------------------------------------------------------
\* identities; the key of an identity is REDIS_KEY_PREFIX + uid
Uids == {"u1"}
NoUser == "<None>"

\* tasks that call is_req_allowed, in one or several process instances
Clients == {"t1", "t2"}

\* a key without a time to live
NoTtl == -1

Absent == [exists |-> FALSE, val |-> 0, ttl |-> NoTtl]

\* variant: the client computes the new value from the value it read (GET,
\* then SET of the value plus one)
IncrValue_ClientSide(entry, seen) == seen + 1

\* INCR key delta, on the value the store holds when it executes the command;
\* seen is the value the key had when the client sent the pipeline
IncrValue(entry, seen) == (IF entry.exists THEN entry.val ELSE 0) + 1

RedisIncr(entry, seen) ==
    [exists |-> TRUE, val |-> IncrValue(entry, seen), ttl |-> entry.ttl]

\* EXPIRE key secs
RedisExpire(entry, secs) ==
    IF ~entry.exists THEN entry
    ELSE IF secs <= 0 THEN Absent
    ELSE [entry EXCEPT !.ttl = secs]

\* variant: the pipeline has no EXPIRE
PipeExpire_Missing(entry, secs) == entry

\* .expire(key, self.timeframe) of the pipeline
PipeExpire(entry, secs) == RedisExpire(entry, secs)

\* redis::Value
RInt(n) == [kind |-> "Int", int |-> n, items |-> <<>>]
RNil == [kind |-> "Nil", int |-> 0, items |-> <<>>]
RBulk(items) == [kind |-> "Bulk", int |-> 0, items |-> items]

\* RedisResult<Value>
RespOk(v) == [err |-> FALSE, value |-> v]
RespErr == [err |-> TRUE, value |-> RNil]

\* what the client reads after the store executed the pipeline: the reply, an
\* I/O error, or a reply of another shape
Faults == {"none", "lost", "not_bulk", "empty_bulk", "non_int"}

Response(fault, n) ==
    CASE fault = "none" -> RespOk(RBulk(<<RInt(n)>>))
      [] fault = "lost" -> RespErr
      [] fault = "not_bulk" -> RespOk(RInt(n))
      [] fault = "empty_bulk" -> RespOk(RBulk(<<>>))
      [] fault = "non_int" -> RespOk(RBulk(<<RNil>>))

\* ------------------------------------------------------------------
\* RequestsLimiter
\* ------------------------------------------------------------------
MaxLimit == 2
MaxTimeframe == 2
MaxCount == 3

I32_MAX == 2147483647
I32_MIN == -I32_MAX - 1

\* an action of the limiter leaves the search chain alone
LimiterFrame == UNCHANGED <<chainVars, findVars, resolveVars, serviceVars>>

IdleClient ==
    [pc |-> "idle", uid |-> NoUser, anonymous |-> FALSE, failure |-> "none",
     executed |-> FALSE, new_val |-> 0, ret |-> TRUE,
     seen |-> 0, ord |-> 0, callNo |-> 0, after |-> -1, inWindow |-> FALSE]

CounterOf(u) == IF kv[u].exists THEN kv[u].val ELSE 0

InFlightFor(u) == {c \in Clients : cl[c].uid = u /\ cl[c].pc \in {"conn", "sent"}}

\* the entities is_req_allowed is called with: a Message has an optional
\* sender, a CallbackQuery and an InlineQuery always have one
Entities ==
    [kind : {"Message"}, from : Uids \cup {NoUser}]
        \cup [kind : {"CallbackQuery", "InlineQuery"}, from : Uids]

\* variant: an entity without sender is counted under a common identity
UserId_SharedDefault(entity) ==
    IF entity.from = NoUser THEN CHOOSE u \in Uids : TRUE ELSE entity.from

\* GetUserId::user_id: self.from().map(|u| u.id) for a Message,
\* Some(self.from.id) for the other two
UserId(entity) ==
    IF entity.kind = "Message"
    THEN (IF entity.from = NoUser THEN NoUser ELSE entity.from)
    ELSE entity.from

\* is_req_allowed is called with an entity that carries a user id
IsReqAllowed(c, entity) ==
    /\ cl[c].pc = "idle"
    /\ UserId(entity) # NoUser
    /\ CounterOf(UserId(entity)) + Cardinality(InFlightFor(UserId(entity))) < MaxCount
    /\ cl' = [cl EXCEPT ![c] = [IdleClient EXCEPT !.pc = "conn",
                                                  !.uid = UserId(entity),
                                                  !.anonymous = (entity.from = NoUser)]]
    /\ UNCHANGED <<max_allowed, timeframe, kv, served, quiet, expired, granted>>
    /\ LimiterFrame
   

\* is_req_allowed is called with an entity without user id: log and allow
IsReqAllowedNoUser(c, entity) ==
    /\ cl[c].pc = "idle"
    /\ UserId(entity) = NoUser
    /\ cl' = [cl EXCEPT ![c] = [IdleClient EXCEPT !.pc = "done", !.ret = TRUE,
                                                  !.anonymous = (entity.from = NoUser)]]
    /\ UNCHANGED <<max_allowed, timeframe, kv, served, quiet, expired, granted>>
    /\ LimiterFrame
   

\* self.pool.get().await succeeds and the pipeline is sent
GetConn(c) ==
    /\ cl[c].pc = "conn"
    /\ cl' = [cl EXCEPT ![c].pc = "sent", ![c].seen = CounterOf(cl[c].uid)]
    /\ UNCHANGED <<max_allowed, timeframe, kv, served, quiet, expired, granted>>
    /\ LimiterFrame
   

\* self.pool.get().await? fails
GetConnFails(c) ==
    /\ cl[c].pc = "conn"
    /\ cl' = [cl EXCEPT ![c].pc = "recv", ![c].failure = "no_conn"]
    /\ UNCHANGED <<max_allowed, timeframe, kv, served, quiet, expired, granted>>
    /\ LimiterFrame
   

\* query_async fails before the store has executed anything
QueryFails(c) ==
    /\ cl[c].pc = "sent"
    /\ cl' = [cl EXCEPT ![c].pc = "recv", ![c].failure = "command", ![c].seen = 0]
    /\ UNCHANGED <<max_allowed, timeframe, kv, served, quiet, expired, granted>>
    /\ LimiterFrame
   

\* redis::pipe().atomic().incr(key, 1).expire(key, timeframe).ignore():
\* the store executes MULTI INCR EXPIRE EXEC as one step and sends its reply
PipelineResult(entry, seen, secs) ==
    LET incremented == RedisIncr(entry, seen)
    IN  [entry |-> PipeExpire(incremented, secs), new_val |-> incremented.val]

ExecPipeline(c) ==
    /\ cl[c].pc = "sent"
    /\ LET u == cl[c].uid
           r == PipelineResult(kv[u], cl[c].seen, timeframe)
           mine == [cl[c] EXCEPT !.pc = "recv",
                                 !.executed = TRUE,
                                 !.new_val = r.new_val,
                                 !.callNo = Len(served[u]) + 1,
                                 !.after = IF kv[u].exists THEN -1 ELSE expired[u],
                                 !.inWindow = r.entry.exists]
       IN  /\ kv' = [kv EXCEPT ![u] = r.entry]
           /\ quiet' = [quiet EXCEPT ![u] = 0]
           /\ IF r.entry.exists
              THEN /\ served' = [served EXCEPT ![u] = Append(@, r.new_val)]
                   /\ expired' = [expired EXCEPT ![u] = 0]
                   /\ cl' = [cl EXCEPT ![c] = mine]
                   /\ UNCHANGED granted
              ELSE \* a time to live of zero: the key is gone at once
                   /\ served' = [served EXCEPT ![u] = <<>>]
                   /\ expired' = [expired EXCEPT ![u] = r.new_val]
                   /\ granted' = [granted EXCEPT ![u] = 0]
                   /\ cl' = [d \in Clients |->
                               IF d = c THEN mine
                               ELSE IF cl[d].uid = u THEN [cl[d] EXCEPT !.inWindow = FALSE]
                               ELSE cl[d]]
    /\ UNCHANGED <<max_allowed, timeframe>>
    /\ LimiterFrame

\* fetch_requests_count on the response: Result<i32>
FetchRequestsCount(resp) ==
    IF resp.err THEN [ok |-> FALSE, count |-> 0]
    ELSE IF resp.value.kind # "Bulk" THEN [ok |-> FALSE, count |-> 0]
    ELSE IF resp.value.items = <<>> THEN [ok |-> FALSE, count |-> 0]
    ELSE IF resp.value.items[1].kind # "Int" THEN [ok |-> FALSE, count |-> 0]
    ELSE IF resp.value.items[1].int > I32_MAX \/ resp.value.items[1].int < I32_MIN
         THEN [ok |-> FALSE, count |-> 0]
    ELSE [ok |-> TRUE, count |-> resp.value.items[1].int]

\* variant: the comparison is strict
Check_Strict(req_count) == req_count < max_allowed

\* check: Ok(req_count <= self.max_allowed)
Check(req_count) == req_count <= max_allowed

\* variant: a check that failed denies the request
IsReqAllowedValue_FailClosed(resp) ==
    LET fetched == FetchRequestsCount(resp)
    IN  IF fetched.ok THEN Check(fetched.count) ELSE FALSE

\* is_req_allowed: check(uid).await.unwrap_or_else(|e| { log; true })
IsReqAllowedValue(resp) ==
    LET fetched == FetchRequestsCount(resp)
    IN  IF fetched.ok THEN Check(fetched.count) ELSE TRUE

\* the task reads the response (the reply of the store if it executed the
\* pipeline and nothing went wrong on the way) and is_req_allowed computes its value
Decide(c, fault) ==
    /\ cl[c].pc = "recv"
    /\ cl[c].executed \/ fault = "lost"
    /\ LET resp == Response(fault, cl[c].new_val)
           ret == IsReqAllowedValue(resp)
           ord == IF fault = "none" THEN cl[c].new_val ELSE 0
           failure == IF fault # "lost" THEN fault
                      ELSE IF cl[c].executed THEN "command" ELSE cl[c].failure
       IN  /\ cl' = [cl EXCEPT ![c] =
                       IF failure = "none"
                       THEN [@ EXCEPT !.pc = "done", !.ret = ret, !.ord = ord]
                       ELSE \* what the store did is of no use to a failed check
                            [IdleClient EXCEPT !.pc = "done", !.uid = cl[c].uid,
                                               !.anonymous = cl[c].anonymous,
                                               !.executed = cl[c].executed,
                                               !.ret = ret, !.failure = failure]]
           /\ granted' = IF ret /\ cl[c].inWindow /\ ord > 0
                         THEN [granted EXCEPT ![cl[c].uid] = @ + 1]
                         ELSE granted
    /\ UNCHANGED <<max_allowed, timeframe, kv, served, quiet, expired>>
    /\ LimiterFrame

\* is_req_allowed returns to its caller
Return(c) ==
    /\ cl[c].pc = "done"
    /\ cl' = [cl EXCEPT ![c] = IdleClient]
    /\ UNCHANGED <<max_allowed, timeframe, kv, served, quiet, expired, granted>>
    /\ LimiterFrame
   

\* one second passes: every time to live shrinks, a key at zero is removed
TickEntry(entry) ==
    IF entry.exists /\ entry.ttl # NoTtl
    THEN (IF entry.ttl <= 1 THEN Absent ELSE [entry EXCEPT !.ttl = @ - 1])
    ELSE entry

Tick ==
    /\ \E u \in Uids : kv[u].exists \/ quiet[u] < timeframe
    /\ kv' = [u \in Uids |-> TickEntry(kv[u])]
    /\ quiet' = [u \in Uids |-> IF quiet[u] < timeframe THEN quiet[u] + 1 ELSE quiet[u]]
    /\ LET gone == {u \in Uids : kv[u].exists /\ ~TickEntry(kv[u]).exists}
       IN  /\ served' = [u \in Uids |-> IF u \in gone THEN <<>> ELSE served[u]]
           /\ expired' = [u \in Uids |-> IF u \in gone THEN kv[u].val ELSE expired[u]]
           /\ granted' = [u \in Uids |-> IF u \in gone THEN 0 ELSE granted[u]]
           /\ cl' = [c \in Clients |->
                       IF cl[c].uid \in gone THEN [cl[c] EXCEPT !.inWindow = FALSE] ELSE cl[c]]
    /\ UNCHANGED <<max_allowed, timeframe>>
    /\ LimiterFrame

InitLimiterIdle ==
    /\ max_allowed = 0
    /\ timeframe = 0
    /\ kv = [u \in Uids |-> Absent]
    /\ cl = [c \in Clients |-> IdleClient]
    /\ served = [u \in Uids |-> <<>>]
    /\ quiet = [u \in Uids |-> 0]
    /\ expired = [u \in Uids |-> 0]
    /\ granted = [u \in Uids |-> 0]

InitChainIdle ==
    /\ env = [n \in EnvNames |-> NotPresent]
    /\ chainBuilt = FALSE
    /\ global_finders = <<>>
    /\ regional_finders = EmptyMap
    /\ new_input = <<>>
    /\ lang_input = EmptyMap
    /\ fpc = "idle"
    /\ flang = "en"
    /\ futures = <<>>
    /\ inflight = {}
    /\ invoked = <<>>
    /\ outcomes = <<>>
    /\ result = <<>>
    /\ rpc = "idle"
    /\ query = <<>>
    /\ resolved = [ok |-> TRUE, locs |-> <<>>]

\* RequestsLimiter::new(client, max_allowed, timeframe) over an empty store
InitLimiter ==
    /\ InitChainIdle
    /\ InitServicesIdle
    /\ max_allowed \in 0..MaxLimit
    /\ timeframe \in 0..MaxTimeframe
    /\ kv = [u \in Uids |-> Absent]
    /\ cl = [c \in Clients |-> IdleClient]
    /\ served = [u \in Uids |-> <<>>]
    /\ quiet = [u \in Uids |-> timeframe]
    /\ expired = [u \in Uids |-> 0]
    /\ granted = [u \in Uids |-> 0]


NextLimiter ==
    \/ \E c \in Clients, entity \in Entities : IsReqAllowed(c, entity)
    \/ \E c \in Clients, entity \in Entities : IsReqAllowedNoUser(c, entity)
    \/ \E c \in Clients : GetConn(c)
    \/ \E c \in Clients : GetConnFails(c)
    \/ \E c \in Clients : QueryFails(c)
    \/ \E c \in Clients : ExecPipeline(c)
    \/ \E c \in Clients, fault \in Faults : Decide(c, fault)
    \/ \E c \in Clients : Return(c)
    \/ Tick

\* ------------------------------------------------------------------
\* Specification of the search chain
\* ------------------------------------------------------------------
InitFind ==
    /\ fpc = "idle"
    /\ flang = "en"
    /\ futures = <<>>
    /\ inflight = {}
    /\ invoked = <<>>
    /\ outcomes = <<>>
    /\ result = <<>>

InitResolve ==
    /\ rpc = "idle"
    /\ query = <<>>
    /\ resolved = OkRes(<<>>)

InitChain ==
    /\ env \in EnvSpace
    /\ chainBuilt = FALSE
    /\ global_finders = <<>>
    /\ regional_finders = EmptyMap
    /\ new_input = <<>>
    /\ lang_input = EmptyMap
    /\ InitFind
    /\ InitResolve
    /\ InitLimiterIdle
    /\ InitServicesIdle

NextChain ==
    \/ \E ws \in WrapperLists : New(ws)
    \/ \E lc \in OverrideLangs, ws \in WrapperLists : ForLangCode(lc, ws)
    \/ \E lc \in LangCodes : Find(lc)
    \/ FindInvoke
    \/ \E res \in ProviderOutcomes : FindAwait(res)
    \/ FindExhausted
    \/ FindReturn

vars == <<env, chainBuilt, global_finders, regional_finders, new_input, lang_input,
          fpc, flang, futures, inflight, invoked, outcomes, result,
          rpc, query, resolved,
          max_allowed, timeframe, kv, cl, served, quiet, expired, granted,
          hstore, hc, mlog, sent, contacted, clean, stored, derived, hage,
          cache, inner, instant, ut, invalidated, ih, pf, ad, cb>>

SpecChain == InitChain /\ [][NextChain]_vars

SpecLimiter == InitLimiter /\ [][NextLimiter]_vars

\* ------------------------------------------------------------------
\* Query texts and COORDS_REGEXP
\* ------------------------------------------------------------------
MaxQueryLen == 5

\* the characters query texts are made of
Digits == {"1"}
Whitespace == {" "}
Chars == Digits \cup Whitespace \cup {".", ",", "-"}

RECURSIVE SeqsUpTo(_, _)
SeqsUpTo(S, n) ==
    IF n = 0 THEN {<<>>}
    ELSE LET shorter == SeqsUpTo(S, n - 1)
         IN  shorter \cup {Append(t, c) : t \in {u \in shorter : Len(u) = n - 1}, c \in S}

Queries == SeqsUpTo(Chars, MaxQueryLen)

\* s is a run of one or more digits
AllDigits(s) == s # <<>> /\ \A i \in 1..Len(s) : s[i] \in Digits

\* -?\d{1,maxInt}([.,]\d+)?
MatchesNumber(s, maxInt) ==
    LET t == IF s # <<>> /\ s[1] = "-" THEN Tail(s) ELSE s
    IN  \E n \in 1..maxInt :
            /\ n <= Len(t)
            /\ AllDigits(SubSeq(t, 1, n))
            /\ \/ Len(t) = n
               \/ /\ Len(t) >= n + 2
                  /\ t[n + 1] \in {".", ","}
                  /\ AllDigits(SubSeq(t, n + 2, Len(t)))

\* ,?\s+
MatchesSeparator(s) ==
    LET t == IF s # <<>> /\ s[1] = "," THEN Tail(s) ELSE s
    IN  t # <<>> /\ \A i \in 1..Len(t) : t[i] \in Whitespace

\* COORDS_REGEXP anchored on the whole text: the pairs <<i, j>> such that the
\* latitude group is q[1..i] and the longitude group is q[j..Len(q)]
CoordsSplits(q) ==
    {ij \in (1..Len(q)) \X (1..Len(q)) :
        /\ ij[1] < ij[2]
        /\ MatchesNumber(SubSeq(q, 1, ij[1]), 2)
        /\ MatchesSeparator(SubSeq(q, ij[1] + 1, ij[2] - 1))
        /\ MatchesNumber(SubSeq(q, ij[2], Len(q)), 3)}

\* COORDS_REGEXP.is_match / captures(..).is_some()
CoordsIsMatch(q) == CoordsSplits(q) # {}

\* COORDS_REGEXP.captures: the named groups (the pattern matches in one way only)
CoordsCaptures(q) ==
    LET ij == CHOOSE x \in CoordsSplits(q) : TRUE
    IN  [latitude |-> SubSeq(q, 1, ij[1]), longitude |-> SubSeq(q, ij[2], Len(q))]

DigitValue(c) == CASE c = "1" -> 1

RECURSIVE DigitsValue(_)
DigitsValue(s) ==
    IF s = <<>> THEN 0
    ELSE 10 * DigitsValue(SubSeq(s, 1, Len(s) - 1)) + DigitValue(s[Len(s)])

RECURSIVE StripZeros(_)
StripZeros(ds) ==
    IF ds # <<>> /\ ds[Len(ds)] = 0 THEN StripZeros(SubSeq(ds, 1, Len(ds) - 1)) ELSE ds

\* the decimal number written as digits, sep, digits, with sep read as the point
ReadDecimal(s, seps) ==
    LET neg == s # <<>> /\ s[1] = "-"
        t == IF neg THEN Tail(s) ELSE s
        points == {i \in 1..Len(t) : t[i] \in seps}
        p == IF points = {} THEN Len(t) + 1 ELSE CHOOSE i \in points : TRUE
        ip == SubSeq(t, 1, p - 1)
        fp == SubSeq(t, p + 1, Len(t))
        wellFormed ==
            /\ Cardinality(points) <= 1
            /\ \A i \in 1..Len(t) : t[i] \in Digits \cup seps
            /\ ip # <<>> \/ fp # <<>>
    IN  IF wellFormed
        THEN [ok |-> TRUE,
              val |-> Dec(neg, DigitsValue(ip), StripZeros([i \in 1..Len(fp) |-> DigitValue(fp[i])]))]
        ELSE [ok |-> FALSE, val |-> Dec(FALSE, 0, <<>>)]

\* str::parse::<f64>: the decimal point is '.', any other character is an error
ParseF64(s) == ReadDecimal(s, {"."})

\* ------------------------------------------------------------------
\* resolve_locations
\* ------------------------------------------------------------------
\* the static FINDER of handlers/mod.rs
FinderGlobal == <<Wrap("google"), Wrap("osm"), Wrap("yandex")>>
FinderRu == <<Wrap("yandex"), Wrap("google"), Wrap("osm")>>

\* resolve_locations is entered with a query text and a language code
Resolve(q, lang_code) ==
    /\ chainBuilt
    /\ rpc = "idle"
    /\ fpc = "idle"
    /\ query' = q
    /\ IF CoordsIsMatch(q)
       THEN LET coords == CoordsCaptures(q)
                lat == ParseF64(coords.latitude)
                long == ParseF64(coords.longitude)
            IN  /\ rpc' = "done"
                /\ resolved' =
                      IF ~lat.ok \/ ~long.ok
                      THEN ErrRes
                      ELSE OkRes(<<LocationNew(lat.val, long.val)>>)
                /\ UNCHANGED findVars
       ELSE /\ rpc' = "find"
            /\ FindBegin(lang_code)
            /\ UNCHANGED resolved
    /\ UNCHANGED <<chainVars, limiterVars, serviceVars>>

\* FINDER.find(..).await has returned
ResolveFindDone ==
    /\ rpc = "find"
    /\ fpc = "done"
    /\ rpc' = "done"
    /\ resolved' = OkRes(result)
    /\ fpc' = "idle"
    /\ flang' = "en"
    /\ futures' = <<>>
    /\ inflight' = {}
    /\ invoked' = <<>>
    /\ outcomes' = <<>>
    /\ result' = <<>>
    /\ UNCHANGED <<chainVars, query, limiterVars, serviceVars>>

\* the handler takes the value of resolve_locations
ResolveReturn ==
    /\ rpc = "done"
    /\ rpc' = "idle"
    /\ query' = <<>>
    /\ resolved' = OkRes(<<>>)
    /\ UNCHANGED <<chainVars, findVars, limiterVars, serviceVars>>

\* the environments of the deployments explored with resolve_locations
ResolveEnvs ==
    {e \in EnvSpace :
        /\ e["DISABLE_FINDER_GOOGLE"] \in {NotPresent, Present("true")}
        /\ ~e["DISABLE_FINDER_OSM"].present
        /\ ~e["DISABLE_FINDER_YANDEX"].present}

ResolveLangs == {"en", "ru"}

\* the static FINDER has been initialised
InitResolveSpec ==
    /\ env \in ResolveEnvs
    /\ chainBuilt = TRUE
    /\ global_finders = FilterMapEnabled(FinderGlobal, env)
    /\ regional_finders = EntryAppend(EmptyMap, "ru", FilterMapEnabled(FinderRu, env))
    /\ new_input = FinderGlobal
    /\ lang_input = EntryAppend(EmptyMap, "ru", FinderRu)
    /\ InitFind
    /\ InitResolve
    /\ InitLimiterIdle
    /\ InitServicesIdle

\* a handler calls resolve_locations with some text and language code
ResolveCall ==
    /\ rpc = "idle"
    /\ \E q \in Queries, lc \in ResolveLangs : Resolve(q, lc)

NextResolve ==
    \/ ResolveCall
    \/ FindInvoke
    \/ \E res \in ProviderOutcomes : FindAwait(res)
    \/ FindExhausted
    \/ ResolveFindDone
    \/ ResolveReturn

SpecResolve == InitResolveSpec /\ [][NextResolve]_vars

\* ------------------------------------------------------------------
\* SHA-256 (sha256::digest), on words kept as <<high, low>> 16-bit halves
\* ------------------------------------------------------------------
RECURSIVE Pow2(_)
Pow2(n) == IF n = 0 THEN 1 ELSE 2 * Pow2(n - 1)

\* bitwise operations on n-bit naturals
RECURSIVE Xor3Bits(_, _, _, _)
Xor3Bits(a, b, c, n) ==
    IF n = 0 THEN 0
    ELSE (((a % 2) + (b % 2) + (c % 2)) % 2) + 2 * Xor3Bits(a \div 2, b \div 2, c \div 2, n - 1)

RECURSIVE ChBits(_, _, _, _)
ChBits(x, y, z, n) ==
    IF n = 0 THEN 0
    ELSE (IF (x % 2) = 1 THEN (y % 2) ELSE (z % 2)) + 2 * ChBits(x \div 2, y \div 2, z \div 2, n - 1)

RECURSIVE MajBits(_, _, _, _)
MajBits(x, y, z, n) ==
    IF n = 0 THEN 0
    ELSE (IF (x % 2) + (y % 2) + (z % 2) >= 2 THEN 1 ELSE 0)
             + 2 * MajBits(x \div 2, y \div 2, z \div 2, n - 1)

Xor3(a, b, c) == <<Xor3Bits(a[1], b[1], c[1], 16), Xor3Bits(a[2], b[2], c[2], 16)>>
Ch(x, y, z) == <<ChBits(x[1], y[1], z[1], 16), ChBits(x[2], y[2], z[2], 16)>>
Maj(x, y, z) == <<MajBits(x[1], y[1], z[1], 16), MajBits(x[2], y[2], z[2], 16)>>

\* rotate and shift a word to the right by n bits, 0 < n < 32
RotR(w, n) ==
    LET v == IF n >= 16 THEN <<w[2], w[1]>> ELSE w
        k == IF n >= 16 THEN n - 16 ELSE n
    IN  IF k = 0 THEN v
        ELSE <<(v[1] \div Pow2(k)) + ((v[2] % Pow2(k)) * Pow2(16 - k)),
               (v[2] \div Pow2(k)) + ((v[1] % Pow2(k)) * Pow2(16 - k))>>

ShR(w, n) ==
    IF n >= 16 THEN <<0, w[1] \div Pow2(n - 16)>>
    ELSE <<w[1] \div Pow2(n), (w[2] \div Pow2(n)) + ((w[1] % Pow2(n)) * Pow2(16 - n))>>

\* the sum of the words of a sequence, modulo 2^32
RECURSIVE SumHalf(_, _)
SumHalf(ws, h) == IF ws = <<>> THEN 0 ELSE ws[1][h] + SumHalf(Tail(ws), h)

Add32(ws) ==
    LET low == SumHalf(ws, 2)
    IN  <<(SumHalf(ws, 1) + (low \div 65536)) % 65536, low % 65536>>

BigSigma0(x) == Xor3(RotR(x, 2), RotR(x, 13), RotR(x, 22))
BigSigma1(x) == Xor3(RotR(x, 6), RotR(x, 11), RotR(x, 25))
SmallSigma0(x) == Xor3(RotR(x, 7), RotR(x, 18), ShR(x, 3))
SmallSigma1(x) == Xor3(RotR(x, 17), RotR(x, 19), ShR(x, 10))

K256 == <<
    <<17034, 12184>>, <<28983, 17553>>, <<46528, 64463>>, <<59829, 56229>>,
    <<14678, 49755>>, <<23025, 4593>>, <<37439, 33444>>, <<43804, 24277>>,
    <<55303, 43672>>, <<4739, 23297>>, <<9265, 34238>>, <<21772, 32195>>,
    <<29374, 23924>>, <<32990, 45566>>, <<39900, 1703>>, <<49563, 61812>>,
    <<58523, 27073>>, <<61374, 18310>>, <<4033, 40390>>, <<9228, 41420>>,
    <<11753, 11375>>, <<19060, 33962>>, <<23728, 43484>>, <<30457, 35034>>,
    <<38974, 20818>>, <<43057, 50797>>, <<45059, 10184>>, <<48985, 32711>>,
    <<50912, 3059>>, <<54695, 37191>>, <<1738, 25425>>, <<5161, 10599>>,
    <<10167, 2693>>, <<11803, 8504>>, <<19756, 28156>>, <<21304, 3347>>,
    <<25866, 29524>>, <<30314, 2747>>, <<33218, 51502>>, <<37490, 11397>>,
    <<41663, 59553>>, <<43034, 26187>>, <<49739, 35696>>, <<51052, 20899>>,
    <<53650, 59417>>, <<54937, 1572>>, <<62478, 13701>>, <<4202, 41072>>,
    <<6564, 49430>>, <<7735, 27656>>, <<10056, 30540>>, <<13488, 48309>>,
    <<14620, 3251>>, <<20184, 43594>>, <<23452, 51791>>, <<26670, 28659>>,
    <<29839, 33518>>, <<30885, 25455>>, <<33992, 30740>>, <<36039, 520>>,
    <<37054, 65530>>, <<42064, 27883>>, <<48889, 41975>>, <<50801, 30962>> >>

H256 == <<
    <<27145, 58983>>, <<47975, 44677>>, <<15470, 62322>>, <<42319, 62778>>,
    <<20750, 21119>>, <<39685, 26764>>, <<8067, 55723>>, <<23520, 52505>> >>

\* the message: the bytes, 0x80, zeros up to 56 modulo 64, the length in bits
\* as 64 bits
RECURSIVE Zeros(_)
Zeros(n) == IF n = 0 THEN <<>> ELSE <<0>> \o Zeros(n - 1)

Padded(bytes) ==
    LET len == Len(bytes)
        fill == (119 - (len % 64)) % 64
        bits == 8 * len
    IN  bytes \o <<128>> \o Zeros(fill) \o Zeros(5)
              \o <<(bits \div 65536) % 256, (bits \div 256) % 256, bits % 256>>

\* the 16 words of the block that starts at byte off + 1
BlockWords(msg, off) ==
    [i \in 1..16 |-> <<msg[off + 4 * i - 3] * 256 + msg[off + 4 * i - 2],
                       msg[off + 4 * i - 1] * 256 + msg[off + 4 * i]>>]

\* the message schedule, extended from 16 to 64 words
RECURSIVE Schedule(_)
Schedule(w) ==
    IF Len(w) = 64 THEN w
    ELSE LET t == Len(w) + 1
         IN  Schedule(Append(w, Add32(<<SmallSigma1(w[t - 2]), w[t - 7],
                                        SmallSigma0(w[t - 15]), w[t - 16]>>)))

\* the rounds t..64 of the compression function on the working variables s
RECURSIVE Rounds(_, _, _)
Rounds(s, w, t) ==
    IF Len(s) = 8 /\ t > 64 THEN s
    ELSE LET t1 == Add32(<<s[8], BigSigma1(s[5]), Ch(s[5], s[6], s[7]), K256[t], w[t]>>)
             t2 == Add32(<<BigSigma0(s[1]), Maj(s[1], s[2], s[3])>>)
         IN  Rounds(<<Add32(<<t1, t2>>), s[1], s[2], s[3],
                      Add32(<<s[4], t1>>), s[5], s[6], s[7]>>, w, t + 1)

Compress(h, block) ==
    LET s == Rounds(h, Schedule(block), 1)
    IN  [i \in 1..8 |-> Add32(<<h[i], s[i]>>)]

RECURSIVE HashBlocks(_, _, _)
HashBlocks(h, msg, off) ==
    IF off >= Len(msg) THEN h
    ELSE HashBlocks(Compress(h, BlockWords(msg, off)), msg, off + 64)

HexDigits == <<"0", "1", "2", "3", "4", "5", "6", "7", "8", "9", "a", "b", "c", "d", "e", "f">>

\* a 16-bit half as four lowercase hexadecimal digits
Hex16(n) ==
    <<HexDigits[n \div 4096 + 1], HexDigits[((n \div 256) % 16) + 1],
      HexDigits[((n \div 16) % 16) + 1], HexDigits[(n % 16) + 1]>>

RECURSIVE HexOfWords(_)
HexOfWords(ws) ==
    IF ws = <<>> THEN <<>>
    ELSE Hex16(ws[1][1]) \o Hex16(ws[1][2]) \o HexOfWords(Tail(ws))

\* sha256::digest(bytes): the digest as 64 lowercase hexadecimal digits
Sha256Digest(bytes) == HexOfWords(HashBlocks(H256, Padded(bytes), 0))

\* ------------------------------------------------------------------
\* Requests through the caching client and their cache keys
\* ------------------------------------------------------------------
\* the request bodies of test_cache: "", "req-1" and "req-2" as bytes
Bodies == {<<>>, <<114, 101, 113, 45, 49>>, <<114, 101, 113, 45, 50>>}

Methods == {"GET", "POST"}
Uris == {"https://foo.bar"}

Request(method, uri, body) ==
    [method |-> method, uri |-> uri, body |-> body, x_body_hash |-> None]

\* requests as a provider adapter or a test builds them, without X-Body-Hash
\* header: a GET without body, a GET with an empty body, two POSTs that differ
\* in their bodies
Requests ==
    {Request("GET", "https://foo.bar", None),
     Request("GET", "https://foo.bar", Some(<<>>)),
     Request("POST", "https://foo.bar", Some(<<114, 101, 113, 45, 49>>)),
     Request("POST", "https://foo.bar", Some(<<114, 101, 113, 45, 50>>))}

\* the digests of the bodies, computed once
DigestTable == [b \in Bodies |-> Sha256Digest(b)]

Sha256(bytes) == DigestTable[bytes]

\* HeaderValue::from_str(&hash).ok(): visible ASCII only
HeaderValueFromStr(str) ==
    IF \A i \in 1..Len(str) : str[i] \in Range(HexDigits) THEN Some(str) ELSE None

\* InsertBodyHashIntoHeadersMiddleware::handle, up to next.run
InsertBodyHash(req) ==
    LET maybe_body_hash ==
            IF req.body.some THEN HeaderValueFromStr(Sha256(req.body.value)) ELSE None
    IN  IF maybe_body_hash.some THEN [req EXCEPT !.x_body_hash = maybe_body_hash] ELSE req

X_BODY_HASH_DEFAULT == <<"no-body-hash">>

\* variant: the key is made of method and URI only
CacheKey_MethodUriOnly(parts) == <<"loc-cache", ":", parts.method, ":", parts.uri>>

\* the cache_key closure: format!("loc-cache:{}:{}:{}", method, uri, body_hash)
CacheKey(parts) ==
    LET body_hash == IF parts.x_body_hash.some THEN parts.x_body_hash.value
                     ELSE X_BODY_HASH_DEFAULT
    IN  <<"loc-cache", ":", parts.method, ":", parts.uri, ":">> \o body_hash

\* ------------------------------------------------------------------
\* RedisCacheManager
\* ------------------------------------------------------------------
\* http_cache::Result<T>
Ok(v) == [ok |-> TRUE, value |-> v]
Err(e) == [ok |-> FALSE, error |-> e]

\* the responses of an origin: status, body bytes and the max-age of its
\* Cache-Control header
OriginResponses ==
    {[status |-> 200, body |-> <<7>>, max_age |-> 1],
     [status |-> 500, body |-> <<>>, max_age |-> 0]}

\* CachePolicy::new(request parts, response parts)
PolicyOf(res) == [max_age |-> res.max_age, storable |-> res.status = 200]

\* Store { response, policy }
StoreOf(res, policy) == [response |-> res, policy |-> policy]

BoolByte(flag) == IF flag THEN 1 ELSE 0

\* variant: the encoder leaves the body out of the record
Serialize_DropsBody(value) ==
    <<0>> \o <<value.response.status, value.response.max_age>>
          \o <<value.policy.max_age, BoolByte(value.policy.storable)>>

\* serialize: bincode writes the fields in order, a byte vector with its length
\* in front
Serialize(value) ==
    <<Len(value.response.body)>> \o value.response.body
        \o <<value.response.status, value.response.max_age>>
        \o <<value.policy.max_age, BoolByte(value.policy.storable)>>

\* deserialize: decode_from_slice reads the fields back, fails when the bytes
\* end too early or a byte is no boolean, and ignores what follows the record
Deserialize(bytes) ==
    IF bytes = <<>> THEN Err("UnexpectedEnd")
    ELSE LET n == bytes[1]
         IN  IF Len(bytes) < n + 5 THEN Err("UnexpectedEnd")
             ELSE IF bytes[n + 5] \notin {0, 1} THEN Err("InvalidBooleanValue")
             ELSE Ok(StoreOf([status |-> bytes[n + 2], body |-> SubSeq(bytes, 2, n + 1),
                              max_age |-> bytes[n + 3]],
                             [max_age |-> bytes[n + 4], storable |-> bytes[n + 5] = 1]))

\* what can go wrong between the manager and the store: no pooled connection,
\* a command that fails before the store executes it, and for a write also a
\* reply that is lost after the store executed it
ReadFaults == {"none", "no_conn", "command"}
WriteFaults == ReadFaults \cup {"reply_lost"}

\* RedisCacheManager::get
ManagerGet(st, cache_key, fault) ==
    IF fault = "no_conn" THEN Err("no connection")
    ELSE IF fault = "command" THEN Ok(None)
    ELSE IF cache_key \notin DOMAIN st THEN Ok(None)
    ELSE LET decoded == Deserialize(st[cache_key])
         IN  IF decoded.ok
             THEN Ok(Some(<<decoded.value.response, decoded.value.policy>>))
             ELSE Ok(None)

\* SET key data
RedisSet(st, key, data) == [k \in DOMAIN st \cup {key} |-> IF k = key THEN data ELSE st[k]]

\* DEL key
RedisDel(st, key) == [k \in DOMAIN st \ {key} |-> st[k]]

\* variant: put answers without writing
ManagerPut_Discards(st, cache_key, res, policy, fault) == [ret |-> Ok(res), store |-> st]

\* RedisCacheManager::put: the value returned and the store afterwards
ManagerPut(st, cache_key, res, policy, fault) ==
    LET data == Serialize(StoreOf(res, policy))
    IN  IF fault = "no_conn" THEN [ret |-> Err("no connection"), store |-> st]
        ELSE IF fault = "command" THEN [ret |-> Err("command failed"), store |-> st]
        ELSE IF fault = "reply_lost"
             THEN [ret |-> Err("command failed"), store |-> RedisSet(st, cache_key, data)]
        ELSE [ret |-> Ok(res), store |-> RedisSet(st, cache_key, data)]

\* RedisCacheManager::delete
ManagerDelete(st, cache_key, fault) ==
    IF fault = "no_conn" THEN [ret |-> Err("no connection"), store |-> st]
    ELSE IF fault = "command" THEN [ret |-> Err("command failed"), store |-> st]
    ELSE IF fault = "reply_lost"
         THEN [ret |-> Err("command failed"), store |-> RedisDel(st, cache_key)]
    ELSE [ret |-> Ok(<<>>), store |-> RedisDel(st, cache_key)]

\* ------------------------------------------------------------------
\* The caching client: InsertBodyHashIntoHeadersMiddleware, then
\* Cache(HttpCache { mode: IgnoreRules, manager: RedisCacheManager, .. })
\* ------------------------------------------------------------------
MaxSends == 3

\* a function with a default for what it does not hold yet
At(f, x, default) == IF x \in DOMAIN f THEN f[x] ELSE default
With(f, x, v) == [y \in DOMAIN f \cup {x} |-> IF y = x THEN v ELSE f[y]]

RECURSIVE SumOver(_, _)
SumOver(f, S) ==
    IF S = {} THEN 0
    ELSE LET x == CHOOSE y \in S : TRUE IN f[x] + SumOver(f, S \ {x})

\* an action of the caching client leaves the rest alone
CacheFrame == UNCHANGED <<chainVars, findVars, resolveVars, limiterVars, userVars, inlineVars, fnVars, adapterVars, callbackVars>>

CacheMode == "IgnoreRules"

\* HttpCache::can_cache_request
CanCacheRequest(mode, method) ==
    mode = "IgnoreRules" \/ (method \in {"GET", "HEAD"} /\ mode # "NoStore")

\* whether a fetched response is written to the cache
IsCacheable(mode, method, res) ==
    \/ mode = "IgnoreRules" /\ res.status = 200
    \/ /\ method \in {"GET", "HEAD"}
       /\ mode # "NoStore"
       /\ res.status = 200
       /\ PolicyOf(res).storable

\* what the caller of the client gets: a response with its X-Cache marker
Answer(res, marker) == Ok([response |-> res, x_cache |-> marker])

InFlight(pc, orig, req, key, res) ==
    [pc |-> pc, orig |-> orig, req |-> req, key |-> key, res |-> res, out |-> None]

\* client.request(method, uri).body(..).send(): the body hash middleware runs,
\* then the cache layer derives the key
HttpSend(request) ==
    /\ hc.pc = "idle"
    /\ SumOver(sent, DOMAIN sent) < MaxSends
    /\ CanCacheRequest(CacheMode, request.method)
    /\ LET req == InsertBodyHash(request)
       IN  /\ hc' = InFlight("lookup", request, req, CacheKey(req), None)
           /\ derived' = With(derived, request, CacheKey(req))
    /\ UNCHANGED <<hstore, mlog, sent, contacted, clean, stored, hage>>
    /\ CacheFrame

\* whether the policy of an entry of the given age still deems it fresh:
\* its age is below the max-age of the response
Fresh(policy, age) == age < policy.max_age

\* whether an entry that was found is the answer: in mode IgnoreRules (as in
\* ForceCache and OnlyIfCached) it is, whatever its policy says; the other
\* modes consult the policy
UsesStored_HonoursPolicy(mode, policy, age) == Fresh(policy, age)
UsesStored(mode, policy, age) ==
    mode \in {"IgnoreRules", "ForceCache", "OnlyIfCached"} \/ Fresh(policy, age)

\* the oldest age told apart: an entry that old or older
MaxEntryAge == 1

\* the cache layer asks the manager for the key; in mode IgnoreRules an entry
\* found is the answer
HttpLookup(fault) ==
    /\ hc.pc = "lookup"
    /\ LET got == ManagerGet(hstore, hc.key, fault)
       IN  /\ mlog' = [op |-> "get", key |-> hc.key, fault |-> fault, ret |-> got,
                       raw |-> IF hc.key \in DOMAIN hstore THEN Some(hstore[hc.key])
                               ELSE None,
                       known |-> At(stored, hc.key, None)]
           /\ hc' = IF ~got.ok THEN [hc EXCEPT !.pc = "done", !.out = Some(Err(got.error))]
                    ELSE IF got.value.some
                            /\ UsesStored(CacheMode, got.value.value[2], At(hage, hc.key, 0))
                    THEN [hc EXCEPT !.pc = "done",
                                    !.out = Some(Answer(got.value.value[1], "HIT"))]
                    ELSE [hc EXCEPT !.pc = "origin"]
           /\ clean' = IF fault = "none" THEN clean ELSE With(clean, hc.orig, FALSE)
    /\ UNCHANGED <<hstore, sent, contacted, stored, derived, hage>>
    /\ CacheFrame

\* the request goes to the origin, which answers
HttpFetch(res) ==
    /\ hc.pc = "origin"
    /\ contacted' = With(contacted, hc.orig, At(contacted, hc.orig, 0) + 1)
    /\ hc' = IF IsCacheable(CacheMode, hc.orig.method, res)
             THEN [hc EXCEPT !.pc = "store", !.res = Some(res)]
             ELSE IF hc.orig.method \notin {"GET", "HEAD"}
             THEN [hc EXCEPT !.pc = "evict", !.res = Some(res)]
             ELSE [hc EXCEPT !.pc = "done", !.out = Some(Answer(res, "MISS"))]
    /\ clean' = IF res.status = 200 THEN clean ELSE With(clean, hc.orig, FALSE)
    /\ UNCHANGED <<hstore, mlog, sent, stored, derived, hage>>
    /\ CacheFrame

\* the request goes to the origin and fails on the way
HttpFetchFails ==
    /\ hc.pc = "origin"
    /\ contacted' = With(contacted, hc.orig, At(contacted, hc.orig, 0) + 1)
    /\ hc' = [hc EXCEPT !.pc = "done", !.out = Some(Err("transport"))]
    /\ clean' = With(clean, hc.orig, FALSE)
    /\ UNCHANGED <<hstore, mlog, sent, stored, derived, hage>>
    /\ CacheFrame

\* the cache layer hands the fetched response to the manager: put(..).await?
HttpStore(fault) ==
    /\ hc.pc = "store"
    /\ LET res == hc.res.value
           policy == PolicyOf(res)
           put == ManagerPut(hstore, hc.key, res, policy, fault)
       IN  /\ mlog' = [op |-> "put", key |-> hc.key, fault |-> fault, ret |-> put.ret,
                       arg |-> <<res, policy>>]
           /\ hstore' = put.store
           /\ stored' = IF put.ret.ok THEN With(stored, hc.key, Some(<<res, policy>>))
                        ELSE IF put.store # hstore THEN With(stored, hc.key, None)
                        ELSE stored
           /\ hc' = [hc EXCEPT !.pc = "done",
                               !.out = IF put.ret.ok THEN Some(Answer(put.ret.value, "MISS"))
                                       ELSE Some(Err(put.ret.error))]
           /\ clean' = IF fault = "none" THEN clean ELSE With(clean, hc.orig, FALSE)
           /\ hage' = IF put.store # hstore \/ put.ret.ok THEN With(hage, hc.key, 0) ELSE hage
    /\ UNCHANGED <<sent, contacted, derived>>
    /\ CacheFrame

\* a response that is not stored, to a request that is neither GET nor HEAD:
\* delete(key).await.ok(), then the response is the answer
HttpEvict(fault) ==
    /\ hc.pc = "evict"
    /\ LET del == ManagerDelete(hstore, hc.key, fault)
       IN  /\ mlog' = [op |-> "delete", key |-> hc.key, fault |-> fault, ret |-> del.ret]
           /\ hstore' = del.store
           /\ stored' = With(stored, hc.key, None)
           /\ hc' = [hc EXCEPT !.pc = "done", !.out = Some(Answer(hc.res.value, "MISS"))]
           /\ clean' = IF fault = "none" THEN clean ELSE With(clean, hc.orig, FALSE)
    /\ UNCHANGED <<sent, contacted, derived, hage>>
    /\ CacheFrame

\* send() returns to its caller
HttpReturn ==
    /\ hc.pc = "done"
    /\ sent' = With(sent, hc.orig, At(sent, hc.orig, 0) + 1)
    /\ hc' = IdleHttp
    /\ mlog' = NoCall
    /\ UNCHANGED <<hstore, contacted, clean, stored, derived, hage>>
    /\ CacheFrame

\* what another program that shares the store writes under a key: bytes no
\* deserialize accepts, or the record of a response (another instance of this
\* program)
ForeignBytes ==
    {<<3, 7>>} \cup {Serialize(StoreOf(res, PolicyOf(res))) : res \in {r \in OriginResponses : r.status = 200}}

\* another program that shares the store writes the bytes of an entry; it is
\* seen by nothing before the next lookup of that key, so it is taken right
\* before that lookup
ForeignWrite(bytes) ==
    /\ hc.pc = "lookup"
    /\ At(hstore, hc.key, <<>>) # bytes
    /\ hstore' = RedisSet(hstore, hc.key, bytes)
    /\ stored' = With(stored, hc.key, None)
    /\ clean' = With(clean, hc.orig, FALSE)
    /\ hage' = With(hage, hc.key, 0)
    /\ UNCHANGED <<hc, mlog, sent, contacted, derived>>
    /\ CacheFrame

\* a second passes between two requests: every entry written grows older.
\* RedisCacheManager writes with SET, without an expiry, so the store drops
\* nothing as time passes
CacheElapse ==
    /\ hc.pc = "idle"
    /\ \E k \in DOMAIN hage : hage[k] < MaxEntryAge
    /\ hage' = [k \in DOMAIN hage |-> IF hage[k] < MaxEntryAge THEN hage[k] + 1 ELSE hage[k]]
    /\ UNCHANGED <<hstore, hc, mlog, sent, contacted, clean, stored, derived>>
    /\ CacheFrame

InitCache ==
    /\ InitChainIdle
    /\ InitLimiterIdle
    /\ InitCacheIdle
    /\ InitUsersIdle
    /\ InitInlineIdle
    /\ InitFnIdle
    /\ InitAdapterIdle
    /\ InitCallbackIdle

NextCache ==
    \/ \E request \in Requests : HttpSend(request)
    \/ \E fault \in ReadFaults : HttpLookup(fault)
    \/ \E res \in OriginResponses : HttpFetch(res)
    \/ HttpFetchFails
    \/ \E fault \in WriteFaults : HttpStore(fault)
    \/ \E fault \in WriteFaults : HttpEvict(fault)
    \/ HttpReturn
    \/ \E bytes \in ForeignBytes : ForeignWrite(bytes)

SpecCache == InitCache /\ [][NextCache]_vars

\* the caching client over time: the requests the adapters send (GET, from
\* client.get(url)), with seconds passing between them
AdapterRequests == {request \in Requests : request.method = "GET"}

NextCacheAging ==
    \/ \E request \in AdapterRequests : HttpSend(request)
    \/ \E fault \in ReadFaults : HttpLookup(fault)
    \/ \E res \in OriginResponses : HttpFetch(res)
    \/ HttpFetchFails
    \/ \E fault \in WriteFaults : HttpStore(fault)
    \/ HttpReturn
    \/ \E bytes \in ForeignBytes : ForeignWrite(bytes)
    \/ CacheElapse

SpecCacheAging == InitCache /\ [][NextCacheAging]_vars

\* ------------------------------------------------------------------
\* UserServiceClientGrpc (src/src/users/mod.rs): the profile cache client
\* ------------------------------------------------------------------
\* an action of the profile client leaves the rest alone
UserFrame == UNCHANGED <<chainVars, findVars, resolveVars, limiterVars, cacheVars, inlineVars, fnVars, adapterVars, callbackVars>>

\* the identities asked about and the tasks that ask
UserIds == {"u1"}
Tasks == {"a", "b"}

\* env USER_CACHE_TIME_SECS, in seconds
USER_CACHE_TIME_SECS == 1

\* the instants the clock distinguishes within one second
InstantsPerSec == 2

\* the last instant the clock reaches
MaxInstant == 4

\* Duration::as_secs: the whole seconds of a duration, the fraction dropped
AsSecs(d) == d \div InstantsPerSec

\* is_user_fresh, at the instant it is evaluated
IsUserFresh_Exclusive(usr, at) == AsSecs(at - usr.updated_at) < USER_CACHE_TIME_SECS
IsUserFresh(usr, at) == AsSecs(at - usr.updated_at) <= USER_CACHE_TIME_SECS

\* CachedUser::from(Option<User>), at the instant it is built
CachedUser_NoTime(value, at) == [user |-> value, updated_at |-> 0]
CachedUser(value, at) == [user |-> value, updated_at |-> at]

\* CHashMap::remove
Without(f, x) == [y \in DOMAIN f \ {x} |-> f[y]]

\* the options a user can set
LanguageCodes == {<<"r", "u">>}
Locations == {<<"55.75", "37.61">>}
Targets == [kind : {"Language"}, value : LanguageCodes] \cup [kind : {"Location"}, value : Locations]

\* the profile the service creates on registration
NewUser(uid) == [id |-> <<"id", uid>>, language_code |-> None, location |-> None]

\* UpdateUserRequest applied by the service
Updated(user, target) ==
    IF target.kind = "Language"
    THEN [user EXCEPT !.language_code = Some(target.value)]
    ELSE [user EXCEPT !.location = Some(target.value)]

\* what can happen to a call of the remote service
RemoteFaults == {"none", "unavailable"}
UpdateFaults == RemoteFaults \cup {"reply_lost"}
RegisterFaults == RemoteFaults \cup {"unspecified"}

\* a call of the client that has just started
Running(op, uid, arg) ==
    [pc |-> "start", op |-> op, uid |-> uid, arg |-> arg, id |-> None, resp |-> None]

\* a call of the client that has returned
Done(r, ret) == [pc |-> "done", op |-> r.op, uid |-> r.uid, ret |-> ret]

\* what follows the value of self.get(uid): get returns it; get_internal_id
\* passes an error on, turns an absent user into not found, and otherwise
\* lets the update go out with the internal id
AfterGet(r, got) ==
    IF r.op = "get" \/ ~got.ok THEN Done(r, got)
    ELSE IF ~got.value.some THEN Done(r, Err("NotFound"))
    ELSE [r EXCEPT !.pc = "update", !.id = Some(got.value.value.id), !.resp = None]

\* get (also as the first step of set_language and set_location): the
\* cache read, answered at once from a fresh entry
GetCall(t, op, uid, arg) ==
    /\ ut[t].pc = "idle"
    /\ LET found == IF uid \in DOMAIN cache THEN Some(cache[uid]) ELSE None
           cached_user == IF found.some /\ IsUserFresh(found.value, instant) THEN found ELSE None
           r == Running(op, uid, arg)
       IN  ut' = [ut EXCEPT ![t] =
                    IF cached_user.some
                    THEN AfterGet(r, Ok(cached_user.value.user))
                    ELSE [r EXCEPT !.pc = "get"]]
    /\ invalidated' = invalidated \ {uid}
    /\ UNCHANGED <<cache, inner, instant>>
    /\ UserFrame

\* the service answers GetUserRequest
GetServe(t, fault) ==
    /\ ut[t].pc = "get"
    /\ LET uid == ut[t].uid
           resp == IF fault # "none" THEN Err("Unavailable")
                   ELSE IF uid \in DOMAIN inner THEN Ok(inner[uid])
                   ELSE Err("NotFound")
       IN  ut' = [ut EXCEPT ![t].pc = "get_resp", ![t].resp = resp]
    /\ UNCHANGED <<cache, inner, instant, invalidated>>
    /\ UserFrame

\* get: the answer arrives and is cached
GetReceive(t) ==
    /\ ut[t].pc = "get_resp"
    /\ LET uid == ut[t].uid
           resp == ut[t].resp
       IN  IF resp.ok
           THEN /\ cache' = With(cache, uid, CachedUser(Some(resp.value), instant))
                /\ ut' = [ut EXCEPT ![t] = AfterGet(ut[t], Ok(Some(resp.value)))]
           ELSE IF resp.error = "NotFound"
           THEN /\ cache' = With(cache, uid, CachedUser(None, instant))
                /\ ut' = [ut EXCEPT ![t] = AfterGet(ut[t], Ok(None))]
           ELSE /\ cache' = cache
                /\ ut' = [ut EXCEPT ![t] = AfterGet(ut[t], resp)]
    /\ UNCHANGED <<inner, instant, invalidated>>
    /\ UserFrame

\* the service answers UpdateUserRequest
UpdateServe(t, fault) ==
    /\ ut[t].pc = "update"
    /\ LET uid == ut[t].uid
       IN  /\ inner' = IF fault = "unavailable" THEN inner
                       ELSE With(inner, uid, Updated(inner[uid], ut[t].arg))
           /\ ut' = [ut EXCEPT ![t].pc = "update_resp",
                               ![t].resp = IF fault = "none" THEN Ok("updated") ELSE Err("Unavailable")]
    /\ UNCHANGED <<cache, instant, invalidated>>
    /\ UserFrame

\* variant: the entry is removed whatever the answer
UpdateReceive_AlwaysRemoves(t) ==
    /\ ut[t].pc = "update_resp"
    /\ LET uid == ut[t].uid
           resp == ut[t].resp
       IN  /\ cache' = Without(cache, uid)
           /\ invalidated' = IF resp.ok THEN invalidated \cup {uid} ELSE invalidated
           /\ ut' = [ut EXCEPT ![t] = Done(ut[t], IF resp.ok THEN Ok("unit") ELSE resp)]
    /\ UNCHANGED <<inner, instant>>
    /\ UserFrame

\* set_language, set_location: the answer arrives, the entry is removed
UpdateReceive(t) ==
    /\ ut[t].pc = "update_resp"
    /\ LET uid == ut[t].uid
           resp == ut[t].resp
       IN  /\ cache' = IF resp.ok THEN Without(cache, uid) ELSE cache
           /\ invalidated' = IF resp.ok THEN invalidated \cup {uid} ELSE invalidated
           /\ ut' = [ut EXCEPT ![t] = Done(ut[t], IF resp.ok THEN Ok("unit") ELSE resp)]
    /\ UNCHANGED <<inner, instant>>
    /\ UserFrame

\* register: the request goes out
RegisterCall(t, uid) ==
    /\ ut[t].pc = "idle"
    /\ ut' = [ut EXCEPT ![t] = [Running("register", uid, None) EXCEPT !.pc = "register"]]
    /\ UNCHANGED <<cache, inner, instant, invalidated>>
    /\ UserFrame

\* the service answers RegistrationRequest
RegisterServe(t, fault) ==
    /\ ut[t].pc = "register"
    /\ LET uid == ut[t].uid
           present == uid \in DOMAIN inner
           user == IF present THEN inner[uid] ELSE NewUser(uid)
       IN  /\ inner' = IF fault = "none" THEN With(inner, uid, user) ELSE inner
           /\ ut' = [ut EXCEPT ![t].pc = "register_resp",
                               ![t].resp =
                                   IF fault = "unavailable" THEN Err("Unavailable")
                                   ELSE IF fault = "unspecified" THEN Ok([status |-> "Unspecified", id |-> user.id])
                                   ELSE IF present THEN Ok([status |-> "AlreadyPresent", id |-> user.id])
                                   ELSE Ok([status |-> "Created", id |-> user.id])]
    /\ UNCHANGED <<cache, instant, invalidated>>
    /\ UserFrame

\* register: the answer arrives, the entry is removed
RegisterReceive(t) ==
    /\ ut[t].pc = "register_resp"
    /\ LET uid == ut[t].uid
           resp == ut[t].resp
           registered == resp.ok /\ resp.value.status \in {"Created", "AlreadyPresent"}
       IN  /\ cache' = IF registered THEN Without(cache, uid) ELSE cache
           /\ invalidated' = IF registered THEN invalidated \cup {uid} ELSE invalidated
           /\ ut' = [ut EXCEPT ![t] = Done(ut[t], IF registered THEN Ok(resp.value.id)
                                                   ELSE IF resp.ok THEN Err("Unsupported")
                                                   ELSE resp)]
    /\ UNCHANGED <<inner, instant>>
    /\ UserFrame

\* the caller takes the result
TakeResult(t) ==
    /\ ut[t].pc = "done"
    /\ ut' = [ut EXCEPT ![t] = IdleTask]
    /\ UNCHANGED <<cache, inner, instant, invalidated>>
    /\ UserFrame

\* clean_up_cache, called by a task: cache.retain(is_user_fresh). swept keeps
\* the identities whose entry it dropped
CleanUpCache(t) ==
    /\ ut[t].pc = "idle"
    /\ LET fresh == {uid \in DOMAIN cache : IsUserFresh(cache[uid], instant)}
       IN  /\ cache' = [uid \in fresh |-> cache[uid]]
           /\ ut' = [ut EXCEPT ![t] = [pc |-> "done", op |-> "clean_up_cache", uid |-> "",
                                       ret |-> Ok(<<>>), swept |-> DOMAIN cache \ fresh]]
    /\ UNCHANGED <<inner, instant, invalidated>>
    /\ UserFrame

\* time passes
Elapse ==
    /\ instant < MaxInstant
    /\ instant' = instant + 1
    /\ UNCHANGED <<cache, inner, ut, invalidated>>
    /\ UserFrame

InitUsers ==
    /\ InitChainIdle
    /\ InitLimiterIdle
    /\ InitCacheIdle
    /\ InitInlineIdle
    /\ InitFnIdle
    /\ InitAdapterIdle
    /\ InitCallbackIdle
    /\ cache = <<>>
    /\ inner = <<>>
    /\ instant = 0
    /\ ut = [t \in Tasks |-> IdleTask]
    /\ invalidated = {}

NextUsers ==
    \/ \E t \in Tasks, uid \in UserIds : GetCall(t, "get", uid, None)
    \/ \E t \in Tasks, uid \in UserIds, target \in Targets : GetCall(t, "set", uid, target)
    \/ \E t \in Tasks, fault \in RemoteFaults : GetServe(t, fault)
    \/ \E t \in Tasks : GetReceive(t)
    \/ \E t \in Tasks, fault \in UpdateFaults : UpdateServe(t, fault)
    \/ \E t \in Tasks : UpdateReceive(t)
    \/ \E t \in Tasks, uid \in UserIds : RegisterCall(t, uid)
    \/ \E t \in Tasks, fault \in RegisterFaults : RegisterServe(t, fault)
    \/ \E t \in Tasks : RegisterReceive(t)
    \/ \E t \in Tasks : TakeResult(t)
    \/ \E t \in Tasks : CleanUpCache(t)
    \/ Elapse

SpecUsers == InitUsers /\ [][NextUsers]_vars

\* ------------------------------------------------------------------
\* inline_handler (src/src/handlers/mod.rs) over limiter, profile client
\* and resolve_locations
\* ------------------------------------------------------------------
\* a step of the handler itself leaves everything it calls alone
InlineFrame == UNCHANGED <<chainVars, findVars, resolveVars, limiterVars, cacheVars, userVars, fnVars, adapterVars, callbackVars>>

\* \pL and \pM: letters and combining marks ("'" stands for a mark)
Letters == {"a", "b", "c"}
Marks == {"'"}

\* (\pL(\pM)?){n} matches q at position i
RECURSIVE UnitsAt(_, _, _)
UnitsAt(q, i, n) ==
    IF n = 0 THEN TRUE
    ELSE /\ i <= Len(q)
         /\ q[i] \in Letters
         /\ \/ UnitsAt(q, i + 1, n - 1)
            \/ i + 1 <= Len(q) /\ q[i + 1] \in Marks /\ UnitsAt(q, i + 2, n - 1)

\* the repetition count of QUERY_REGEX
QueryRegexMin == 3

\* QUERY_REGEX.is_match
QueryRegexIsMatch(q) == \E i \in 1..Len(q) : UnitsAt(q, i, QueryRegexMin)

\* QueryCheckMode
QueryCheckModes == {"Emptiness", "Regex"}

\* variant: the coordinate pattern is not consulted
IsQueryCorrect_NoCoords(mode, q) ==
    q # <<>> /\ (QueryRegexIsMatch(q) \/ mode # "Regex")

\* is_query_correct under a QUERY_CHECK_MODE
IsQueryCorrect(mode, q) ==
    q # <<>> /\ (QueryRegexIsMatch(q) \/ CoordsIsMatch(q) \/ mode # "Regex")

\* the language code as the search chain's key
LangKey(code) ==
    CASE code = <<"r", "u">> -> "ru"
      [] code = <<"e", "n">> -> "en"
      [] OTHER -> "other"

\* variant: without the default for a user that has no code at all
EnsureLangCode_NoDefault(profile_code, hint) ==
    LET chosen == IF profile_code.some THEN profile_code ELSE hint
    IN  IF ~chosen.some THEN <<>>
        ELSE IF SubSeq(chosen.value, 1, 2) \in {<<"u", "k">>, <<"b", "e">>} THEN <<"r", "u">>
        ELSE chosen.value

\* ensure_lang_code: the profile's language, else the hint, else "en"; a
\* code that begins with "uk" or "be" becomes "ru"
EnsureLangCode(profile_code, hint) ==
    LET chosen == IF profile_code.some THEN profile_code ELSE hint
    IN  IF ~chosen.some THEN <<"e", "n">>
        ELSE IF SubSeq(chosen.value, 1, 2) \in {<<"u", "k">>, <<"b", "e">>} THEN <<"r", "u">>
        ELSE chosen.value

\* &code[..2] on the chosen code: the slice is out of range for a code
\* shorter than two bytes, and ensure_lang_code panics
EnsureLangCodePanics(profile_code, hint) ==
    LET chosen == IF profile_code.some THEN profile_code ELSE hint
    IN  chosen.some /\ Len(chosen.value) < 2

\* try_fetch_user_info on the value of client.get(uid): errors and absent
\* users give no options
TryFetchUserInfo(got) ==
    IF got.ok /\ got.value.some THEN Some(got.value.value) ELSE None

\* the inline queries received
InlineTexts == {<<>>, <<"a", "b">>, <<"a", "b", "c">>, <<"1", " ", "1">>, <<"1", ".", " ", "1">>}
InlineHints == {None, Some(<<"e", "n">>), Some(<<"u", "k">>)}
InlineQueries == [query : InlineTexts, from : [id : Uids, language_code : InlineHints]]

\* UserService::Connected / UserService::Disabled
UserServices == {"Connected", "Disabled"}

\* the handler has been entered with q
Handling(q) ==
    [pc |-> "start", mode |-> ih.mode, usr_client |-> ih.usr_client, q |-> q,
     allowed |-> None, lang_code |-> None, location |-> None,
     locations |-> None, answer |-> None, ret |-> None]

\* nothing the handler calls is running
Settled ==
    /\ cl["t1"].pc = "idle"
    /\ \A t \in Tasks : ut[t].pc = "idle"
    /\ rpc = "idle"
    /\ fpc = "idle"

\* variant: the limiter is asked whatever the query
InlineHandler_LimiterFirst(q) ==
    /\ ih.pc = "idle"
    /\ Settled
    /\ ih' = [Handling(q) EXCEPT !.pc = "limiter"]
    /\ InlineFrame

\* inline_handler is entered: is_query_correct, and only for a correct
\* query the limiter
InlineHandler(q) ==
    /\ ih.pc = "idle"
    /\ Settled
    /\ ih' = [Handling(q) EXCEPT !.pc = IF ~IsQueryCorrect(ih.mode, q.query)
                                        THEN "answer_empty" ELSE "limiter"]
    /\ InlineFrame

\* variant: the limiter's value is ignored
AfterLimiter_Open(is_req_allowed) == "lang"

\* rate_limit_exceeded and the branch taken on it
AfterLimiter(is_req_allowed) ==
    LET forbidden == ~is_req_allowed
    IN  IF forbidden THEN "answer_empty" ELSE "lang"

\* rate_limit_exceeded: INLINE_REQUESTS_LIMITER.is_req_allowed(q) is called
RateLimitCall ==
    /\ ih.pc = "limiter"
    /\ IsReqAllowed("t1", [kind |-> "InlineQuery", from |-> ih.q.from.id])

\* the limiter works on the handler's call
RateLimitStep ==
    /\ ih.pc = "limiter"
    /\ \/ GetConn("t1")
       \/ GetConnFails("t1")
       \/ QueryFails("t1")
       \/ ExecPipeline("t1")
       \/ \E fault \in Faults : Decide("t1", fault)

\* rate_limit_exceeded returns
RateLimitExceeded ==
    /\ ih.pc = "limiter"
    /\ cl["t1"].pc = "done"
    /\ ih' = [ih EXCEPT !.pc = AfterLimiter(cl["t1"].ret), !.allowed = Some(cl["t1"].ret)]
    /\ InlineFrame

\* the limiter's call is over
RateLimitReturn ==
    /\ ih.pc \in {"answer_empty", "lang"}
    /\ Return("t1")

\* bot.answer_inline_query(q.id, vec![]).await?
AnswerEmpty(delivered) ==
    /\ ih.pc = "answer_empty"
    /\ Settled
    /\ ih' = [ih EXCEPT !.pc = "end", !.answer = Some(<<>>),
                        !.ret = IF delivered THEN Ok("unit") ELSE Err("RequestError")]
    /\ InlineFrame

\* ensure_lang_code and try_determine_location without a profile service
LangDisabled ==
    /\ ih.pc = "lang"
    /\ Settled
    /\ ih.usr_client = "Disabled"
    /\ ih' = [ih EXCEPT !.pc = "resolve",
                        !.lang_code = Some(EnsureLangCode(None, ih.q.from.language_code)),
                        !.location = Some(None)]
    /\ InlineFrame

\* ensure_lang_code: try_fetch_user_info calls client.get (task a)
LangFetch ==
    /\ ih.pc = "lang"
    /\ ih.usr_client = "Connected"
    /\ cl["t1"].pc = "idle"
    /\ \/ GetCall("a", "get", ih.q.from.id, None)
       \/ \E fault \in RemoteFaults : GetServe("a", fault)
       \/ GetReceive("a")

\* ensure_lang_code returns
LangChosen ==
    /\ ih.pc = "lang"
    /\ ut["a"].pc = "done"
    /\ LET options == TryFetchUserInfo(ut["a"].ret)
           profile_code == IF options.some THEN options.value.language_code ELSE None
       IN  ih' = [ih EXCEPT !.pc = "loc",
                            !.lang_code = Some(EnsureLangCode(profile_code, ih.q.from.language_code))]
    /\ InlineFrame

\* try_determine_location: try_fetch_user_info calls client.get (task b)
LocationFetch ==
    /\ ih.pc = "loc"
    /\ \/ TakeResult("a")
       \/ ut["a"].pc = "idle" /\ GetCall("b", "get", ih.q.from.id, None)
       \/ \E fault \in RemoteFaults : GetServe("b", fault)
       \/ GetReceive("b")

\* try_determine_location returns
LocationDetermined ==
    /\ ih.pc = "loc"
    /\ ut["b"].pc = "done"
    /\ LET options == TryFetchUserInfo(ut["b"].ret)
       IN  ih' = [ih EXCEPT !.pc = "resolve",
                            !.location = Some(IF options.some THEN options.value.location ELSE None)]
    /\ InlineFrame

\* resolve_locations(q.query, lang_code, location) runs
ResolveLocations ==
    /\ ih.pc = "resolve"
    /\ \/ TakeResult("b")
       \/ (\A t \in Tasks : ut[t].pc = "idle") /\ Resolve(ih.q.query, LangKey(ih.lang_code.value))
       \/ FindInvoke
       \/ \E res \in ProviderOutcomes : FindAwait(res)
       \/ FindExhausted
       \/ ResolveFindDone

\* resolve_locations returns: an error ends the handler, locations are sent
ResolveLocationsDone ==
    /\ ih.pc = "resolve"
    /\ rpc = "done"
    /\ ih' = IF resolved.ok
             THEN [ih EXCEPT !.pc = "send", !.locations = Some(resolved.locs)]
             ELSE [ih EXCEPT !.pc = "end", !.ret = Err("ParseFloatError")]
    /\ InlineFrame

\* the value of resolve_locations has been taken
ResolveLocationsReturn ==
    /\ ih.pc \in {"send", "end"}
    /\ ResolveReturn

\* senders::send_locations_inline
SendLocationsInline(delivered) ==
    /\ ih.pc = "send"
    /\ Settled
    /\ ih' = [ih EXCEPT !.pc = "end", !.answer = Some(ih.locations.value),
                        !.ret = IF delivered THEN Ok("unit") ELSE Err("RequestError")]
    /\ InlineFrame

\* the handler has returned
InlineReturn ==
    /\ ih.pc = "end"
    /\ Settled
    /\ ih' = [pc |-> "idle", mode |-> ih.mode, usr_client |-> ih.usr_client]
    /\ InlineFrame

\* between two inline queries: time passes for the limiter's store
InlineTick ==
    /\ ih.pc = "idle"
    /\ Tick

\* the profiles the service holds at the start
InitialProfiles ==
    {<<>>} \cup
    {[u \in Uids |-> [NewUser(u) EXCEPT !.language_code = lc, !.location = loc]] :
        lc \in {None} \cup {Some(c) : c \in LanguageCodes},
        loc \in {None} \cup {Some(l) : l \in Locations}}

\* the limit and window of INLINE_REQUESTS_LIMITER
InlineMaxAllowed == 1
InlineTimeframe == 1

InitInline ==
    /\ env \in ResolveEnvs
    /\ chainBuilt = TRUE
    /\ global_finders = FilterMapEnabled(FinderGlobal, env)
    /\ regional_finders = EntryAppend(EmptyMap, "ru", FilterMapEnabled(FinderRu, env))
    /\ new_input = FinderGlobal
    /\ lang_input = EntryAppend(EmptyMap, "ru", FinderRu)
    /\ InitFind
    /\ InitResolve
    /\ max_allowed = InlineMaxAllowed
    /\ timeframe = InlineTimeframe
    /\ kv = [u \in Uids |-> Absent]
    /\ cl = [c \in Clients |-> IdleClient]
    /\ served = [u \in Uids |-> <<>>]
    /\ quiet = [u \in Uids |-> timeframe]
    /\ expired = [u \in Uids |-> 0]
    /\ granted = [u \in Uids |-> 0]
    /\ InitCacheIdle
    /\ cache = <<>>
    /\ inner \in InitialProfiles
    /\ instant = 0
    /\ ut = [t \in Tasks |-> IdleTask]
    /\ invalidated = {}
    /\ \E mode \in QueryCheckModes, usr_client \in UserServices :
          ih = [pc |-> "idle", mode |-> mode, usr_client |-> usr_client]
    /\ InitFnIdle
    /\ InitAdapterIdle
    /\ InitCallbackIdle

NextInline ==
    \/ \E q \in InlineQueries : InlineHandler(q)
    \/ RateLimitCall
    \/ RateLimitStep
    \/ RateLimitExceeded
    \/ RateLimitReturn
    \/ \E delivered \in BOOLEAN : AnswerEmpty(delivered)
    \/ LangDisabled
    \/ LangFetch
    \/ LangChosen
    \/ LocationFetch
    \/ LocationDetermined
    \/ ResolveLocations
    \/ ResolveLocationsDone
    \/ ResolveLocationsReturn
    \/ \E delivered \in BOOLEAN : SendLocationsInline(delivered)
    \/ InlineReturn
    \/ InlineTick

SpecInline == InitInline /\ [][NextInline]_vars

\* ------------------------------------------------------------------
\* Functions without state, called with arguments from bounded sets
\* ------------------------------------------------------------------
FnFrame == UNCHANGED <<chainVars, findVars, resolveVars, limiterVars, cacheVars, userVars, inlineVars, adapterVars, callbackVars>>

\* language codes as strings of one-byte characters
MaxCodeLen == 3
CodeChars == {"u", "k", "b", "e"}
Codes == SeqsUpTo(CodeChars, MaxCodeLen)
OptionalCodes == {None} \cup {Some(c) : c \in Codes}

\* a function has been called and has not returned yet
Called(op, args) == [op |-> op, pc |-> "called", args |-> args, out |-> None]

\* a function has returned v, or has panicked
Returned(v) == [panic |-> FALSE, value |-> v]
Panicked == [panic |-> TRUE]

\* ensure_lang_code runs on the code of the profile and the hint
ApplyEnsureLangCode ==
    /\ pf.op = "ensure_lang_code"
    /\ pf.pc = "called"
    /\ pf' = [pf EXCEPT !.pc = "returned",
                        !.out = IF EnsureLangCodePanics(pf.args[1], pf.args[2])
                                THEN Panicked
                                ELSE Returned(EnsureLangCode(pf.args[1], pf.args[2]))]
    /\ FnFrame

\* query texts of letters, combining marks, digits and blanks
MaxTextLen == 5
TextChars == {"a", "'", "1", " "}
Texts == SeqsUpTo(TextChars, MaxTextLen)

\* is_query_correct runs on a text under a QUERY_CHECK_MODE
ApplyIsQueryCorrect ==
    /\ pf.op = "is_query_correct"
    /\ pf.pc = "called"
    /\ pf' = [pf EXCEPT !.pc = "returned",
                        !.out = Returned(IsQueryCorrect(pf.args[1], pf.args[2]))]
    /\ FnFrame

InitFunctions ==
    /\ InitChainIdle
    /\ InitLimiterIdle
    /\ InitCacheIdle
    /\ InitUsersIdle
    /\ InitInlineIdle
    /\ InitAdapterIdle
    /\ InitCallbackIdle
    /\ pf \in {Called("ensure_lang_code", <<p, h>>) : p \in OptionalCodes, h \in OptionalCodes}
             \cup {Called("is_query_correct", <<mode, q>>) : mode \in QueryCheckModes, q \in Texts}

NextFunctions ==
    \/ ApplyEnsureLangCode
    \/ ApplyIsQueryCorrect

SpecFunctions == InitFunctions /\ [][NextFunctions]_vars

\* ------------------------------------------------------------------
\* Provider adapters: GoogleLocFinder, YandexLocFinder, OpenStreetMapLocFinder
\* ------------------------------------------------------------------
AdapterFrame == UNCHANGED <<chainVars, findVars, resolveVars, limiterVars, cacheVars, userVars, inlineVars, fnVars, callbackVars>>

\* serde_json::Value
JNull == [t |-> "null"]
JStr(s) == [t |-> "str", s |-> s]
JNum(n) == [t |-> "num", n |-> n]
JArr(a) == [t |-> "arr", a |-> a]
\* an object with the members whose value is not absent
JObj(members) ==
    LET present == {m \in members : m[2] # JNull}
    IN  [t |-> "obj",
         o |-> [k \in {m[1] : m \in present} |-> (CHOOSE m \in present : m[1] = k)[2]]]

\* value[key]: Null when value is no object or has no such member
Idx(v, key) == IF v.t = "obj" /\ key \in DOMAIN v.o THEN v.o[key] ELSE JNull
\* value[i], counted from zero: Null when value is no array or too short
IdxN(v, i) == IF v.t = "arr" /\ i < Len(v.a) THEN v.a[i + 1] ELSE JNull
AsStr(v) == IF v.t = "str" THEN Some(v.s) ELSE None
AsF64(v) == IF v.t = "num" THEN Some(v.n) ELSE None
AsArray(v) == IF v.t = "arr" THEN Some(v.a) ELSE None

\* Location { address: Some(..), latitude, longitude }
LocationOf(address, latitude, longitude) ==
    [address |-> address, latitude |-> latitude, longitude |-> longitude]

\* str::split(' '): the pieces between the spaces, empty pieces included
RECURSIVE SplitSpace(_)
SplitSpace(s) ==
    LET spaces == {i \in 1..Len(s) : s[i] = " "}
    IN  IF spaces = {} THEN <<s>>
        ELSE LET i == CHOOSE j \in spaces : \A k \in spaces : j <= k
             IN  <<SubSeq(s, 1, i - 1)>> \o SplitSpace(SubSeq(s, i + 1, Len(s)))

\* map_resp of google.rs
GoogleMapResp(v) ==
    LET address == AsStr(Idx(v, "formatted_address"))
        loc == Idx(Idx(v, "geometry"), "location")
        latitude == AsF64(Idx(loc, "lat"))
        longitude == AsF64(Idx(loc, "lng"))
    IN  IF ~address.some THEN None
        ELSE IF ~latitude.some THEN None
        ELSE IF ~longitude.some THEN None
        ELSE Some(LocationOf(address.value, latitude.value, longitude.value))

\* geocode_elem_mapper: "pos" holds the longitude, a space, the latitude
GeocodeElemMapper(v) ==
    LET obj == Idx(v, "GeoObject")
        metadata == Idx(Idx(obj, "metaDataProperty"), "GeocoderMetaData")
        address == AsStr(Idx(metadata, "text"))
        posStr == AsStr(Idx(Idx(obj, "Point"), "pos"))
    IN  IF ~address.some THEN None
        ELSE IF ~posStr.some THEN None
        ELSE LET pos == SplitSpace(posStr.value)
             IN  IF Len(pos) < 2 THEN None
                 ELSE LET longitude == ParseF64(pos[1])
                          latitude == ParseF64(pos[2])
                      IN  IF ~longitude.ok THEN None
                          ELSE IF ~latitude.ok THEN None
                          ELSE Some(LocationOf(address.value, latitude.val, longitude.val))

\* places_elem_mapper: the address is "name, description"
PlacesElemMapper(v) ==
    LET name == AsStr(Idx(Idx(v, "properties"), "name"))
        description == AsStr(Idx(Idx(v, "properties"), "description"))
        loc == Idx(Idx(v, "geometry"), "coordinates")
        longitude == AsF64(IdxN(loc, 0))
        latitude == AsF64(IdxN(loc, 1))
    IN  IF ~name.some THEN None
        ELSE IF ~description.some THEN None
        ELSE IF ~longitude.some THEN None
        ELSE IF ~latitude.some THEN None
        ELSE Some(LocationOf(name.value \o <<",", " ">> \o description.value,
                             latitude.value, longitude.value))

\* map_resp of osm.rs: the coordinates are strings
OsmMapResp(v) ==
    LET address == AsStr(Idx(v, "display_name"))
        latStr == AsStr(Idx(v, "lat"))
        lonStr == AsStr(Idx(v, "lon"))
    IN  IF ~address.some THEN None
        ELSE IF ~latStr.some THEN None
        ELSE IF ~ParseF64(latStr.value).ok THEN None
        ELSE IF ~lonStr.some THEN None
        ELSE IF ~ParseF64(lonStr.value).ok THEN None
        ELSE Some(LocationOf(address.value, ParseF64(latStr.value).val,
                             ParseF64(lonStr.value).val))

\* the sub-operations: one request to one endpoint each
SubOperations ==
    {"google.find_geo", "google.find_place", "google.find_text",
     "yandex.find_geo", "yandex.find_place", "osm.find"}

\* the element mapper a sub-operation passes to filter_map
ElemMapper(op, v) ==
    CASE op \in {"google.find_geo", "google.find_place", "google.find_text"} -> GoogleMapResp(v)
      [] op = "yandex.find_geo" -> GeocodeElemMapper(v)
      [] op = "yandex.find_place" -> PlacesElemMapper(v)
      [] op = "osm.find" -> OsmMapResp(v)

\* .iter().filter_map(mapper).collect()
FilterMap_StopsAtMalformed(op, a) ==
    LET mapped == [i \in 1..Len(a) |-> ElemMapper(op, a[i])]
        bad == {i \in 1..Len(a) : ~mapped[i].some}
        n == IF bad = {} THEN Len(a) ELSE (CHOOSE i \in bad : \A j \in bad : i <= j) - 1
    IN  [i \in 1..n |-> mapped[i].value]
FilterMap(op, a) ==
    LET mapped == [i \in 1..Len(a) |-> ElemMapper(op, a[i])]
        kept == SelectSeq(mapped, LAMBDA o : o.some)
    IN  [i \in 1..Len(kept) |-> kept[i].value]

\* the part of the payload a sub-operation reads its results from
ResultArray(op, json) ==
    CASE op \in {"google.find_geo", "google.find_text"} -> AsArray(Idx(json, "results"))
      [] op = "google.find_place" -> AsArray(Idx(json, "candidates"))
      [] op = "yandex.find_geo" ->
            AsArray(Idx(Idx(Idx(json, "response"), "GeoObjectCollection"), "featureMember"))
      [] op = "yandex.find_place" -> AsArray(Idx(json, "features"))
      [] op = "osm.find" -> AsArray(json)

\* .unwrap() in google.rs and osm.rs, .unwrap_or(&empty) in yandex.rs
UnwrapsOrEmpty(op) == op \in {"yandex.find_geo", "yandex.find_place"}

\* what a sub-operation or find ends with: LocResult, or a panic
FindOk(locs) == [kind |-> "ok", locs |-> locs]
FindErr(e) == [kind |-> "err", error |-> e]
FindPanic == [kind |-> "panic"]

\* what send() and json() make of one exchange with the provider
Transport == [shape |-> "transport"]
NotJson == [shape |-> "not_json"]
Json(payload) == [shape |-> "json", json |-> payload]

\* find_place of yandex.rs gives up before it sends when it has no key
NeedsPlacesKey(op) == op = "yandex.find_place"

\* one sub-operation from its request to its result
SubOperation_ErrIsEmpty(op, places_api_key, resp) ==
    IF NeedsPlacesKey(op) /\ ~places_api_key THEN FindOk(<<>>)
    ELSE IF resp.shape = "transport" THEN FindOk(<<>>)
    ELSE IF resp.shape = "not_json" THEN FindOk(<<>>)
    ELSE LET results == ResultArray(op, resp.json)
         IN  IF results.some THEN FindOk(FilterMap(op, results.value))
             ELSE IF UnwrapsOrEmpty(op) THEN FindOk(<<>>)
             ELSE FindPanic
SubOperation(op, places_api_key, resp) ==
    IF NeedsPlacesKey(op) /\ ~places_api_key THEN FindErr("no_places_api_key")
    ELSE IF resp.shape = "transport" THEN FindErr("transport")
    ELSE IF resp.shape = "not_json" THEN FindErr("decode")
    ELSE LET results == ResultArray(op, resp.json)
         IN  IF results.some THEN FindOk(FilterMap(op, results.value))
             ELSE IF UnwrapsOrEmpty(op) THEN FindOk(<<>>)
             ELSE FindPanic

\* GAPI_MODE / YAPI_MODE; the OpenStreetMap adapter has a single way to search
AdapterModes ==
    [google |-> {"Place", "Text", "GeoPlace", "GeoText"},
     yandex |-> {"Geocode", "Place", "GeoPlace"},
     osm |-> {"Search"}]
Adapters == DOMAIN AdapterModes

\* the sub-operation LocFinder::find starts with
FirstOperation(finder, mode) ==
    CASE finder = "google" /\ mode = "Place" -> "google.find_place"
      [] finder = "google" /\ mode = "Text" -> "google.find_text"
      [] finder = "google" /\ mode \in {"GeoPlace", "GeoText"} -> "google.find_geo"
      [] finder = "yandex" /\ mode = "Place" -> "yandex.find_place"
      [] finder = "yandex" /\ mode \in {"Geocode", "GeoPlace"} -> "yandex.find_geo"
      [] finder = "osm" -> "osm.find"

\* find, find_more and find_geo_place: the sub-operation that follows an
\* empty list of the geocode sub-operation
Fallback(finder, mode) ==
    CASE finder = "google" /\ mode = "GeoPlace" -> Some("google.find_place")
      [] finder = "google" /\ mode = "GeoText" -> Some("google.find_text")
      [] finder = "yandex" /\ mode = "GeoPlace" -> Some("yandex.find_place")
      [] OTHER -> None

\* results.is_empty() after find_geo(..).await? in a composite mode
NeedsFallback_OnAnyResult(a, out) ==
    /\ Len(a.calls) = 0
    /\ Fallback(a.finder, a.mode).some
NeedsFallback(a, out) ==
    /\ Len(a.calls) = 0
    /\ Fallback(a.finder, a.mode).some
    /\ out = FindOk(<<>>)

\* the provider's result arrays
MaxElems == 2

Addresses == {JStr(<<"A">>), JStr(<<"B">>)}
One == Dec(FALSE, 1, <<>>)
Eleven == Dec(FALSE, 11, <<>>)

GoogleElem(address, lat, lng) ==
    JObj({<<"formatted_address", address>>,
          <<"geometry", JObj({<<"location", JObj({<<"lat", lat>>, <<"lng", lng>>})>>})>>})
GoogleElems ==
    {GoogleElem(a, lat, lng) : a \in Addresses \cup {JNull},
                               lat \in {JNull, JNum(One), JStr(<<"1">>)},
                               lng \in {JNull, JNum(Eleven)}}

YandexGeoElem(text, pos) ==
    JObj({<<"GeoObject",
            JObj({<<"metaDataProperty", JObj({<<"GeocoderMetaData", JObj({<<"text", text>>})>>})>>,
                  <<"Point", JObj({<<"pos", pos>>})>>})>>})
YandexGeoElems ==
    {YandexGeoElem(t, p) : t \in Addresses \cup {JNull},
                           p \in {JNull, JNum(One), JStr(<<"1", " ", "1", "1">>), JStr(<<"1">>),
                                  JStr(<<"1", " ", " ", "1">>), JStr(<<"1", " ", "1", " ", "1">>)}}

YandexPlaceElem(name, description, coordinates) ==
    JObj({<<"properties", JObj({<<"name", name>>, <<"description", description>>})>>,
          <<"geometry", JObj({<<"coordinates", coordinates>>})>>})
YandexPlaceElems ==
    {YandexPlaceElem(n, d, c) : n \in Addresses \cup {JNull},
                                d \in {JNull, JStr(<<"D">>)},
                                c \in {JNull, JArr(<<JNum(One), JNum(Eleven)>>), JArr(<<JNum(One)>>)}}

OsmElem(display_name, lat, lon) ==
    JObj({<<"display_name", display_name>>, <<"lat", lat>>, <<"lon", lon>>})
OsmElems ==
    {OsmElem(a, lat, lon) : a \in Addresses \cup {JNull},
                            lat \in {JNull, JStr(<<"1">>), JNum(One), JStr(<<"-">>)},
                            lon \in {JNull, JStr(<<"1", "1">>)}}

ElemsOf(op) ==
    CASE op \in {"google.find_geo", "google.find_place", "google.find_text"} -> GoogleElems
      [] op = "yandex.find_geo" -> YandexGeoElems
      [] op = "yandex.find_place" -> YandexPlaceElems
      [] op = "osm.find" -> OsmElems

\* a payload that carries the array where the sub-operation looks for it
Enveloped(op, a) ==
    CASE op \in {"google.find_geo", "google.find_text"} ->
            JObj({<<"status", JStr(<<"O", "K">>)>>, <<"results", JArr(a)>>})
      [] op = "google.find_place" ->
            JObj({<<"status", JStr(<<"O", "K">>)>>, <<"candidates", JArr(a)>>})
      [] op = "yandex.find_geo" ->
            JObj({<<"response", JObj({<<"GeoObjectCollection", JObj({<<"featureMember", JArr(a)>>})>>})>>})
      [] op = "yandex.find_place" -> JObj({<<"features", JArr(a)>>})
      [] op = "osm.find" -> JArr(a)

\* a payload without the array: the provider reports an error in JSON
ErrorPayload == JObj({<<"error", JStr(<<"d", "e", "n", "i", "e", "d">>)>>})

Exchanges(op) ==
    {Transport, NotJson, Json(ErrorPayload)}
        \cup {Json(Enveloped(op, a)) : a \in SeqsUpTo(ElemsOf(op), MaxElems)}

\* what a sub-operation received: nothing (it sent no request), a failure of
\* send() or json(), a payload without the array, or the array
ShapeOf(op, requested, resp) ==
    IF ~requested THEN "none"
    ELSE IF resp.shape # "json" THEN resp.shape
    ELSE IF ResultArray(op, resp.json).some THEN "array" ELSE "no_array"

\* LocFinder::find is called on an adapter built by init (from_env passes a
\* places key whenever the mode is Place or GeoPlace): the first
\* sub-operation is invoked
AdapterFind(finder, mode, places_api_key) ==
    /\ ad.pc = "idle"
    /\ ad' = [pc |-> "await", finder |-> finder, mode |-> mode,
              places_api_key |-> places_api_key,
              op |-> FirstOperation(finder, mode),
              calls |-> <<>>, elems |-> <<>>, ret |-> None,
              counters |-> [requests |-> 1, cached |-> 0, fetched |-> 0]]
    /\ AdapterFrame

\* the X-Cache header of a response: absent, or what the cache layer set
XCacheValues == {None, Some("HIT"), Some("MISS")}

\* from_cache: the header is there and reads HIT
FromCache_AnyMarker(x_cache) == x_cache.some
FromCache(x_cache) == x_cache = Some("HIT")

\* inc_resp_counter
IncRespCounter(counters, x_cache) ==
    IF FromCache(x_cache) THEN [counters EXCEPT !.cached = @ + 1]
    ELSE [counters EXCEPT !.fetched = @ + 1]

\* the sub-operation under way ends; find returns its result, or invokes the
\* fallback sub-operation. calls keeps, per sub-operation invoked, what it
\* received and what it returned; elems is the result array of the latest one.
\* The request counter of a sub-operation is incremented when it starts, a
\* response counter when send() has returned a response
SubOperationReturns(resp, x_cache) ==
    /\ ad.pc = "await"
    /\ LET out == SubOperation(ad.op, ad.places_api_key, resp)
           requested == ~(NeedsPlacesKey(ad.op) /\ ~ad.places_api_key)
           shape == ShapeOf(ad.op, requested, resp)
           received == shape \in {"not_json", "no_array", "array"}
           call == [op |-> ad.op, shape |-> shape, out |-> out,
                    x_cache |-> IF received THEN x_cache ELSE None]
           elems == IF shape = "array" THEN ResultArray(ad.op, resp.json).value ELSE <<>>
           counted == IF received THEN IncRespCounter(ad.counters, x_cache) ELSE ad.counters
       IN  IF NeedsFallback(ad, out)
           THEN ad' = [ad EXCEPT !.op = Fallback(ad.finder, ad.mode).value,
                                 !.calls = Append(@, call),
                                 !.elems = <<>>,
                                 !.counters = [counted EXCEPT !.requests = @ + 1]]
           ELSE ad' = [ad EXCEPT !.pc = "done",
                                 !.calls = Append(@, call),
                                 !.elems = elems,
                                 !.ret = Some(out),
                                 !.counters = counted]
    /\ AdapterFrame

\* the sub-operation whose exchange is under way, if any
Awaited == IF ad.pc = "await" THEN {ad.op} ELSE {}

InitAdapters ==
    /\ InitChainIdle
    /\ InitLimiterIdle
    /\ InitCacheIdle
    /\ InitUsersIdle
    /\ InitInlineIdle
    /\ InitFnIdle
    /\ InitAdapterIdle
    /\ InitCallbackIdle

NextAdapters ==
    \/ \E finder \in Adapters :
           \E mode \in AdapterModes[finder],
              places_api_key \in IF finder = "yandex" THEN BOOLEAN ELSE {FALSE} :
               AdapterFind(finder, mode, places_api_key)
    \/ \E op \in Awaited : \E resp \in Exchanges(op), x_cache \in XCacheValues :
           SubOperationReturns(resp, x_cache)

SpecAdapters == InitAdapters /\ [][NextAdapters]_vars

\* ------------------------------------------------------------------
\* Properties of the search chain (checked under SpecChain)
\* ------------------------------------------------------------------
FindActive == fpc \in {"next", "await", "done", "aborted"}

\* a provider outcome that is a non-empty list
NonEmptyOk(res) == res.ok /\ res.locs # <<>>

\* positions of the outcomes received so far that are non-empty lists
NonEmptyAt(outs) == {k \in 1..Len(outs) : NonEmptyOk(outs[k])}

\* C1: when find has returned and some provider answered a non-empty list, the
\* returned list is exactly the list of the first such provider, every provider
\* before it answered an empty list or an error, and nothing was merged into it.
C1_FirstNonEmptyWins ==
    fpc = "done" =>
        \A k \in NonEmptyAt(outcomes) :
            (\A j \in NonEmptyAt(outcomes) : k <= j) =>
                /\ result = outcomes[k].locs
                /\ invoked[k] = futures[k]

C1_Witness ==
    /\ fpc = "done"
    /\ Len(outcomes) = 3
    /\ outcomes[1] = OkRes(<<>>)
    /\ outcomes[2] = ErrRes
    /\ outcomes[3] = OkRes(<<L2, L1>>)
    /\ result = <<L2, L1>>

\* C2: providers are invoked one at a time in list order: the invoked providers
\* are a prefix of the selected list, at most one call is in flight, provider k
\* is invoked only when the k-1 before it have completed without a non-empty
\* list, and nothing is invoked after a provider answered a non-empty list.
C2_SequentialInOrder ==
    FindActive =>
        /\ Cardinality(inflight) <= 1
        /\ Len(invoked) <= Len(futures)
        /\ IsPrefix(invoked, futures)
        /\ Len(invoked) = Len(outcomes) + Cardinality(inflight)
        /\ \A k \in NonEmptyAt(outcomes) : k = Len(invoked)

C2_Witness ==
    /\ fpc = "done"
    /\ Len(futures) = 3
    /\ Len(invoked) = 2
    /\ ~NonEmptyOk(outcomes[1])
    /\ NonEmptyOk(outcomes[2])

\* C3: an error of a provider never ends the resolution: find is never left
\* through an error, and once find has returned, every provider that answered an
\* error and was not the last of the list was followed by the next provider.
C3_ErrorContinues ==
    /\ fpc # "aborted"
    /\ fpc = "done" =>
          \A k \in 1..Len(outcomes) :
              (~outcomes[k].ok /\ k < Len(futures)) => Len(invoked) > k

C3_Witness ==
    /\ fpc = "done"
    /\ Len(outcomes) = 2
    /\ outcomes[1] = ErrRes
    /\ outcomes[2] = OkRes(<<L1>>)
    /\ result = <<L1>>

\* C4: once every provider of the selected order has finished with an empty list
\* or an error (also when the order is empty), find returns: it is about to
\* return, or has returned, the empty list.
C4_ExhaustedReturnsEmpty ==
    (FindActive /\ inflight = {} /\ Len(outcomes) = Len(futures) /\ NonEmptyAt(outcomes) = {}) =>
        \/ fpc = "next" /\ ENABLED FindExhausted
        \/ fpc = "done" /\ result = <<>>

C4_Witness ==
    /\ fpc = "done"
    /\ Len(futures) = 2
    /\ outcomes = <<ErrRes, ErrRes>>
    /\ result = <<>>

\* C5: a find for a language with a registered override invokes providers of the
\* override list only, in its order; a find for any other language code uses the
\* global list.
C5_OverrideExclusive ==
    FindActive =>
        IF flang \in DOMAIN regional_finders
        THEN IsPrefix(invoked, regional_finders[flang])
        ELSE IsPrefix(invoked, global_finders)

C5_Witness ==
    /\ fpc = "done"
    /\ flang = "ru"
    /\ "ru" \in DOMAIN regional_finders
    /\ regional_finders["ru"] = <<"yandex">>
    /\ global_finders = <<"google", "osm">>
    /\ outcomes = <<OkRes(<<>>)>>
    /\ result = <<>>

\* the claim's own reading of the configuration: the variable of the finder's
\* suffix is set to one of the four words
ConfiguredDisabled(f) ==
    /\ env[EnvVarName(EnvSuffix(f))].present
    /\ env[EnvVarName(EnvSuffix(f))].value \in {"true", "1", "yes", "y"}

RECURSIVE EnabledOf(_)
EnabledOf(ws) ==
    IF ws = <<>> THEN <<>>
    ELSE (IF ConfiguredDisabled(Head(ws).finder) THEN <<>> ELSE <<Head(ws).finder>>)
             \o EnabledOf(Tail(ws))

\* C6: the built chain holds, in the global list and in every override list,
\* exactly the enabled providers of the list it was built from, in their order;
\* no disabled provider is in a list or is invoked by a find.
C6_DisabledDropped ==
    chainBuilt =>
        /\ global_finders = EnabledOf(new_input)
        /\ \A lc \in DOMAIN regional_finders : regional_finders[lc] = EnabledOf(lang_input[lc])
        /\ \A f \in Range(invoked) \cup Range(futures) : ~ConfiguredDisabled(f)

C6_Witness ==
    /\ env["DISABLE_FINDER_GOOGLE"] = Present("y")
    /\ ~env["DISABLE_FINDER_OSM"].present
    /\ ~env["DISABLE_FINDER_YANDEX"].present
    /\ new_input = <<Wrap("yandex"), Wrap("google"), Wrap("osm")>>
    /\ global_finders = <<"yandex", "osm">>
    /\ "ru" \in DOMAIN lang_input
    /\ lang_input["ru"] = <<Wrap("google"), Wrap("osm")>>
    /\ regional_finders["ru"] = <<"osm">>
    /\ fpc = "done"
    /\ flang = "ru"
    /\ invoked = <<"osm">>

\* ------------------------------------------------------------------
\* Properties of resolve_locations (checked under SpecResolve)
\* ------------------------------------------------------------------
\* the number a coordinate text denotes, '.' and ',' both being decimal separators
CoordNumber(s) == ReadDecimal(s, {".", ","}).val

\* C7: for every query text that matches the coordinate-pair pattern,
\* resolve_locations returns Ok with exactly one Location that has no address
\* and whose latitude and longitude are the two numbers of the text, and no
\* provider is invoked.
C7_CoordsShortCircuit ==
    (rpc = "done" /\ CoordsIsMatch(query)) =>
        /\ resolved.ok
        /\ Len(resolved.locs) = 1
        /\ resolved.locs[1].address = NoAddress
        /\ resolved.locs[1].latitude = CoordNumber(CoordsCaptures(query).latitude)
        /\ resolved.locs[1].longitude = CoordNumber(CoordsCaptures(query).longitude)
        /\ fpc = "idle"
        /\ invoked = <<>>

\* the same for the texts whose numbers are written with '.' or without a
\* fraction: these do resolve to the single synthesized Location
C7_DotCoordsShortCircuit ==
    (rpc = "done" /\ CoordsIsMatch(query) /\ \A i \in 1..Len(query) : query[i] # ",") =>
        /\ resolved = OkRes(<<LocationNew(CoordNumber(CoordsCaptures(query).latitude),
                                          CoordNumber(CoordsCaptures(query).longitude))>>)
        /\ fpc = "idle"
        /\ invoked = <<>>

\* ------------------------------------------------------------------
\* Properties of the rate limiter (checked under SpecLimiter)
\* ------------------------------------------------------------------
\* the check of task c went through the store and got its ordinal back
Served(c) == cl[c].pc = "done" /\ cl[c].ord > 0

\* C8: a check that reached the store returns true iff the ordinal the store
\* returned is at most max_allowed; the ordinal is the number of the call within
\* the window, so the first max_allowed calls of a window return true and every
\* further call of that window returns false.
C8_AllowedIffWithinLimit ==
    \A c \in Clients :
        Served(c) =>
            /\ cl[c].ret <=> (cl[c].ord <= max_allowed)
            /\ cl[c].ret <=> (cl[c].callNo <= max_allowed)

C8_Witness ==
    /\ max_allowed = 2
    /\ Served("t1") /\ cl["t1"].callNo = 2 /\ cl["t1"].ret
    /\ Served("t2") /\ cl["t2"].callNo = 3 /\ ~cl["t2"].ret
    /\ cl["t1"].inWindow /\ cl["t2"].inWindow

\* C9: a counter is gone once its identity made no request for the whole
\* timeframe, and the first request after an expiry gets ordinal 1 and is
\* allowed when max_allowed >= 1, whatever value the expired counter had.
C9_ResetAfterExpiry ==
    /\ \A u \in Uids : quiet[u] >= timeframe => ~kv[u].exists
    /\ \A c \in Clients :
          (Served(c) /\ cl[c].after >= 1) =>
              /\ cl[c].ord = 1
              /\ max_allowed >= 1 => cl[c].ret

C9_Witness ==
    /\ max_allowed = 1
    /\ timeframe = 2
    /\ Served("t1")
    /\ cl["t1"].after = 3
    /\ cl["t1"].ord = 1
    /\ cl["t1"].ret

\* C10: under any interleaving of checks for one identity, the ordinals issued
\* within one window are 1, 2, 3, ... in the order the store executed the
\* increments, no two checks of a window hold the same ordinal, and at most
\* max_allowed of the checks of a window return true.
C10_OrdinalsGapless ==
    /\ \A u \in Uids : \A i \in 1..Len(served[u]) : served[u][i] = i
    /\ \A c, d \in Clients :
          (c # d /\ cl[c].uid = cl[d].uid /\ cl[c].ord > 0 /\ cl[d].ord > 0
               /\ cl[c].inWindow /\ cl[d].inWindow) => cl[c].ord # cl[d].ord
    /\ \A u \in Uids : granted[u] <= max_allowed

C10_Witness ==
    /\ max_allowed = 2
    /\ served["u1"] = <<1, 2, 3>>
    /\ granted["u1"] = 2
    /\ cl["t1"].seen = 1 /\ cl["t2"].seen = 1
    /\ cl["t1"].ord = 3 /\ cl["t2"].ord = 2
    /\ cl["t1"].inWindow /\ cl["t2"].inWindow
    /\ cl["t1"].pc = "done" /\ ~cl["t1"].ret
    /\ cl["t2"].pc = "done" /\ cl["t2"].ret

\* the ways the check of a call can fail on the side of the store
StoreFailures == {"no_conn", "command", "not_bulk", "empty_bulk", "non_int"}

\* C11: a call of is_req_allowed whose check failed for a store-side reason (no
\* pooled connection, command failure, reply that is not a bulk, empty bulk,
\* first element not an integer) returns true: never false, never an error.
C11_StoreFailureAllows ==
    \A c \in Clients :
        /\ cl[c].ret \in BOOLEAN
        /\ cl[c].failure \in StoreFailures \cup {"none"}
        /\ (cl[c].pc = "done" /\ cl[c].failure \in StoreFailures) => cl[c].ret = TRUE

\* two failed checks, one without connection and one whose reply has no
\* integer although the store counted the call beyond the limit
C11_Witness ==
    /\ cl["t1"].pc = "done" /\ cl["t1"].failure = "no_conn" /\ cl["t1"].ret
    /\ cl["t2"].pc = "done" /\ cl["t2"].failure = "non_int" /\ cl["t2"].ret
    /\ cl["t2"].executed /\ kv[cl["t2"].uid].val > max_allowed

\* C12: a call of is_req_allowed with an entity without user identity is
\* answered true in one step that leaves the store as it is: no counter is
\* created, incremented or given a new expiry.
C12_NoUserNoStore ==
    [][\A c \in Clients :
          (cl[c].pc = "idle" /\ cl'[c].pc # "idle" /\ cl'[c].anonymous) =>
              /\ cl'[c].pc = "done"
              /\ cl'[c].ret = TRUE
              /\ ~cl'[c].executed
              /\ kv' = kv]_vars

\* a call without identity was allowed while the counter of an identity is
\* beyond the limit and stays as it was
C12_Witness ==
    /\ cl["t1"].pc = "done" /\ cl["t1"].anonymous /\ cl["t1"].ret
    /\ cl["t1"].uid = NoUser
    /\ kv["u1"].exists /\ kv["u1"].val > max_allowed

\* ------------------------------------------------------------------
\* Properties of the response cache (checked under SpecCache)
\* ------------------------------------------------------------------
PostReq1 == Request("POST", "https://foo.bar", Some(<<114, 101, 113, 45, 49>>))
PostReq2 == Request("POST", "https://foo.bar", Some(<<114, 101, 113, 45, 50>>))
GetNoBody == Request("GET", "https://foo.bar", None)
GetEmptyBody == Request("GET", "https://foo.bar", Some(<<>>))

\* C14: the cache key is a function of method, URI and body: requests with the
\* same method and URI derive the same key iff their bodies are the same, and
\* the key of a request with a body ends with the SHA-256 digest of that body
\* (64 hexadecimal digits), so distinct POST payloads to one endpoint never
\* share a cache entry.
C14_KeyOfMethodUriBody ==
    /\ \A r1, r2 \in DOMAIN derived :
          (r1.method = r2.method /\ r1.uri = r2.uri) =>
              ((r1.body = r2.body) <=> (derived[r1] = derived[r2]))
    /\ \A r \in DOMAIN derived :
          r.body.some =>
              /\ Len(derived[r]) = 70
              /\ SubSeq(derived[r], 7, 70) = Sha256(r.body.value)
    /\ GetEmptyBody \in DOMAIN derived =>
          SubSeq(derived[GetEmptyBody], 7, 14) = <<"e", "3", "b", "0", "c", "4", "4", "2">>

C14_Witness ==
    /\ {PostReq1, PostReq2, GetNoBody} \subseteq DOMAIN derived
    /\ derived[PostReq1] # derived[PostReq2]
    /\ derived[GetNoBody] = <<"loc-cache", ":", "GET", ":", "https://foo.bar", ":", "no-body-hash">>

\* C15 as stated: after a put that succeeded, put has returned the response it
\* was given, and every get of that key returns the pair stored, until a later
\* put or delete on that key.
C15_PutThenGet ==
    /\ (mlog.op = "put" /\ mlog.ret.ok) => mlog.ret.value = mlog.arg[1]
    /\ (mlog.op = "get" /\ mlog.known.some) => mlog.ret = Ok(Some(mlog.known.value))

\* C15 amended: after a put that succeeded, put has returned the response it
\* was given, and every get of that key that obtains a connection and whose
\* read command succeeds returns the pair stored, until a later put or delete
\* on that key.
C15_PutThenReadableGet ==
    /\ (mlog.op = "put" /\ mlog.ret.ok) => mlog.ret.value = mlog.arg[1]
    /\ (mlog.op = "get" /\ mlog.known.some /\ mlog.fault = "none") =>
          mlog.ret = Ok(Some(mlog.known.value))

C15_Witness ==
    /\ mlog.op = "get" /\ mlog.fault = "none"
    /\ mlog.known.some
    /\ mlog.ret.ok /\ mlog.ret.value.some
    /\ mlog.ret.value.value[1].body = <<7>>
    /\ At(sent, hc.orig, 0) >= 1

WentWell(r) == At(clean, r, TRUE)

\* C16 as stated: of the requests with the same method, URI and body sent one
\* after the other, the first and only the first contacts the origin.
C16_OriginOnce ==
    \A r \in Requests :
        /\ At(contacted, r, 0) <= 1
        /\ At(sent, r, 0) >= 1 => At(contacted, r, 0) = 1

\* C16 amended: the same, for requests whose store operations all succeeded,
\* whose key no other program wrote, and that the origin answered with
\* status 200.
C16_OriginOnceWhenAllWentWell ==
    \A r \in Requests :
        WentWell(r) =>
            /\ At(contacted, r, 0) <= 1
            /\ At(sent, r, 0) >= 1 => At(contacted, r, 0) = 1

\* the bodies req-1, req-1, req-2 were posted and the origin was contacted twice
C16_Witness ==
    /\ At(sent, PostReq1, 0) = 2 /\ At(contacted, PostReq1, 0) = 1
    /\ At(sent, PostReq2, 0) = 1 /\ At(contacted, PostReq2, 0) = 1
    /\ WentWell(PostReq1) /\ WentWell(PostReq2)

\* C17: get returns a miss, never an error, when no connection can be obtained,
\* when the read command fails, when the key is absent and when the bytes
\* stored cannot be deserialized.
C17_GetFailsOpen ==
    mlog.op = "get" =>
        /\ mlog.ret.ok
        /\ (mlog.fault # "none" \/ ~mlog.raw.some \/ ~Deserialize(mlog.raw.value).ok) =>
              mlog.ret = Ok(None)

\* C18: a put whose write fails (no connection, or the SET command fails)
\* returns the response it was given, and the request the response belongs to
\* does not fail.
C18_PutFailsOpen ==
    (mlog.op = "put" /\ mlog.fault # "none") =>
        /\ mlog.ret = Ok(mlog.arg[1])
        /\ hc.pc = "done" => hc.out.value.ok

\* ------------------------------------------------------------------
\* Properties of the profile cache client (checked under SpecUsers)
\* ------------------------------------------------------------------
\* C19: after set_location, set_language or register has returned success
\* for an identity, the profile cache holds no entry for that identity (so
\* the next get for it is a remote lookup); stated for the time between the
\* return of the write and the start of the next get for the identity
C19_NoEntryAfterWrite ==
    \A uid \in invalidated : uid \notin DOMAIN cache

\* a get of task t starts in this step
GetStarts(t) ==
    /\ ut[t].pc = "idle"
    /\ ut'[t].pc # "idle"
    /\ ut'[t].op = "get"

\* the age of the entry of uid is at most the TTL
WithinTTL(uid) ==
    /\ uid \in DOMAIN cache
    /\ instant - cache[uid].updated_at <= USER_CACHE_TIME_SECS * InstantsPerSec

\* C20: get performs a remote call iff the cache holds no entry within the
\* TTL: an entry within the TTL is returned without a remote call, a cached
\* absent user included; with no entry, or one older than the TTL, the
\* remote service is called
C20_RemoteCallIffNoFreshEntry ==
    [][\A t \in Tasks :
          GetStarts(t) =>
              IF WithinTTL(ut'[t].uid)
              THEN /\ ut'[t].pc = "done"
                   /\ ut'[t].ret = Ok(cache[ut'[t].uid].user)
              ELSE ut'[t].pc = "get"]_vars

\* ------------------------------------------------------------------
\* Properties of inline_handler (checked under SpecInline)
\* ------------------------------------------------------------------
\* no profile lookup, no resolution, no chain invocation and no provider
\* call is in progress
NothingLookedUp ==
    /\ \A t \in Tasks : ut[t].pc = "idle"
    /\ rpc = "idle"
    /\ fpc = "idle"
    /\ invoked = <<>>
    /\ inflight = {}

\* the limiter has returned false for the inline query being handled
Refused == ih.pc # "idle" /\ ih.allowed = Some(FALSE)

\* C13: in inline_handler the limiter is consulted before any profile
\* lookup or resolution: whenever one of them is in progress the limiter
\* has returned true for the query; and a query for which the limiter
\* returned false causes no profile-service call, no search-chain
\* invocation and no provider call, and is answered with an empty list
C13_LimiterGatesInline ==
    /\ ~NothingLookedUp => ih.pc # "idle" /\ ih.allowed = Some(TRUE)
    /\ Refused => NothingLookedUp
    /\ Refused /\ ih.pc = "end" => ih.answer = Some(<<>>)

\* a query refused by the limiter has been answered, with the store's
\* counter above the limit
C13_Witness ==
    /\ Refused
    /\ ih.pc = "end"
    /\ ih.answer = Some(<<>>)
    /\ IsQueryCorrect(ih.mode, ih.q.query)
    /\ kv[ih.q.from.id].exists
    /\ kv[ih.q.from.id].val > max_allowed

\* the profile service was unreachable for the get of ensure_lang_code, whose
\* value the handler has just used
LangLookupFailed ==
    /\ ih.pc = "loc"
    /\ ut["a"].pc = "done"
    /\ ~ut["a"].ret.ok

\* the same for the get of try_determine_location
LocationLookupFailed ==
    /\ ih.pc = "resolve"
    /\ ut["b"].pc = "done"
    /\ ~ut["b"].ret.ok

ChosenCode == IF pf.args[1].some THEN pf.args[1] ELSE pf.args[2]

\* C22: ensure_lang_code chooses the profile's language if there is one,
\* else the hint, else "en"; a chosen code that starts with "uk" or "be" is
\* replaced by "ru", and every other chosen code is returned unchanged
C22_EnsureLangCode ==
    (pf.op = "ensure_lang_code" /\ pf.pc = "returned") =>
        pf.out = Returned(IF ~ChosenCode.some THEN <<"e", "n">>
                          ELSE IF IsPrefix(<<"u", "k">>, ChosenCode.value)
                                  \/ IsPrefix(<<"b", "e">>, ChosenCode.value)
                               THEN <<"r", "u">>
                          ELSE ChosenCode.value)

\* is_query_correct has returned
QueryChecked == pf.op = "is_query_correct" /\ pf.pc = "returned"

\* q contains three letters one after the other
ThreeConsecutiveLetters(q) ==
    \E i \in 1..Len(q) : i + 2 <= Len(q) /\ \A j \in i..(i + 2) : q[j] \in Letters

\* q contains three letters one after the other, where one combining mark
\* may follow the first and one the second
ThreeLettersWithMarks(q) ==
    \E i \in 1..Len(q), m1 \in {0, 1}, m2 \in {0, 1} :
        /\ i + 2 + m1 + m2 <= Len(q)
        /\ q[i] \in Letters
        /\ m1 = 1 => q[i + 1] \in Marks
        /\ q[i + 1 + m1] \in Letters
        /\ m2 = 1 => q[i + 2 + m1] \in Marks
        /\ q[i + 2 + m1 + m2] \in Letters

\* C23 as stated: in Regex mode a query is accepted iff it is not empty and
\* contains at least three consecutive letters or matches the coordinate
\* pattern; the empty query is rejected in every mode; every text that
\* resolve_locations treats as a coordinate pair is accepted
C23_IsQueryCorrect ==
    QueryChecked =>
        LET mode == pf.args[1]
            q == pf.args[2]
            accepted == pf.out = Returned(TRUE)
        IN  /\ pf.out \in {Returned(TRUE), Returned(FALSE)}
            /\ mode = "Regex" =>
                  (accepted <=> (q # <<>> /\ (ThreeConsecutiveLetters(q) \/ CoordsIsMatch(q))))
            /\ q = <<>> => ~accepted
            /\ CoordsIsMatch(q) => accepted

\* C23 amended: the same, where each of the three consecutive letters may be
\* followed by one combining mark
C23_IsQueryCorrectWithMarks ==
    QueryChecked =>
        LET mode == pf.args[1]
            q == pf.args[2]
            accepted == pf.out = Returned(TRUE)
        IN  /\ pf.out \in {Returned(TRUE), Returned(FALSE)}
            /\ mode = "Regex" =>
                  (accepted <=> (q # <<>> /\ (ThreeLettersWithMarks(q) \/ CoordsIsMatch(q))))
            /\ q = <<>> => ~accepted
            /\ CoordsIsMatch(q) => accepted

\* in Regex mode a coordinate pair without any letter has been accepted
C23_Witness ==
    /\ QueryChecked
    /\ pf.args = <<"Regex", <<"1", " ", "1">>>>
    /\ CoordsIsMatch(pf.args[2])
    /\ pf.out = Returned(TRUE)

\* ------------------------------------------------------------------
\* More properties of the profile cache client (checked under SpecUsers)
\* ------------------------------------------------------------------
\* a get of task g and a successful set_language or set_location of task w
\* for the same identity have both finished
BothFinished(g, w) ==
    /\ g # w
    /\ ut[g].pc = "done" /\ ut[g].op = "get"
    /\ ut[w].pc = "done" /\ ut[w].op = "set" /\ ut[w].ret.ok
    /\ ut[g].uid = ut[w].uid

\* C24: once a get and a set_location (or set_language) for the same
\* identity have both finished, the profile cache does not hold a profile
\* that was read from the remote service before the write: what it holds for
\* the identity, if anything, is the profile the service holds now
C24_NoStaleEntryAfterRace ==
    \A g, w \in Tasks :
        BothFinished(g, w) =>
            LET uid == ut[w].uid
            IN  uid \in DOMAIN cache => cache[uid].user = Some(inner[uid])

\* ------------------------------------------------------------------
\* More properties of the rate limiter (checked under SpecLimiter)
\* ------------------------------------------------------------------
\* the store executes the pipeline of task c in this step
Executes(c) == cl[c].pc = "sent" /\ cl'[c].pc = "recv" /\ cl'[c].executed

\* is_req_allowed of task c, whose pipeline the store has executed with a
\* count above the limit, returns in this step
ReturnsOverLimit(c) ==
    /\ cl[c].pc = "recv"
    /\ cl[c].executed
    /\ cl[c].new_val > max_allowed
    /\ cl'[c].pc = "done"

\* every check that reaches the store increments the counter and sets its
\* time to live to the timeframe, and a counter disappears only when the
\* timeframe has passed since the last check that reached the store
SlidingWindow ==
    /\ \A c \in Clients :
          Executes(c) =>
              LET u == cl[c].uid
              IN  /\ cl'[c].new_val = CounterOf(u) + 1
                  /\ kv'[u] = IF timeframe > 0
                              THEN [exists |-> TRUE, val |-> CounterOf(u) + 1, ttl |-> timeframe]
                              ELSE Absent
    /\ \A u \in Uids :
          /\ kv[u].exists => kv[u].ttl = timeframe - quiet[u]
          /\ (kv[u].exists /\ ~kv'[u].exists) => quiet'[u] = timeframe

\* C25 as stated: every check that reaches the store, allowed or rejected,
\* increments the counter and resets its expiry to the full timeframe; the
\* counter expires only after timeframe seconds without any request; an
\* identity over the limit whose requests come less than timeframe apart is
\* never allowed again
C25_SlidingWindowNeverAllowsAgain ==
    [][/\ SlidingWindow
       /\ \A c \in Clients : ReturnsOverLimit(c) => cl'[c].ret = FALSE]_vars

\* C25 amended: the same, the identity over the limit being never allowed
\* again by a check that reads the store's reply without error
C25_SlidingWindowRejectsWhileReplyRead ==
    [][/\ SlidingWindow
       /\ \A c \in Clients :
             (ReturnsOverLimit(c) /\ cl'[c].failure = "none") => cl'[c].ret = FALSE]_vars

\* the third check of a window was rejected like the second, and the
\* counter has its full time to live again
C25_Witness ==
    /\ max_allowed = 1
    /\ timeframe = 2
    /\ served["u1"] = <<1, 2, 3>>
    /\ kv["u1"] = [exists |-> TRUE, val |-> 3, ttl |-> 2]
    /\ cl["t1"].pc = "done" /\ cl["t1"].ord = 3 /\ ~cl["t1"].ret
    /\ cl["t1"].failure = "none"

\* ------------------------------------------------------------------
\* Properties of the provider adapters (checked under SpecAdapters)
\* ------------------------------------------------------------------
\* the adapter runs in a mode that composes geocode with a fallback
Composite == ad.pc # "idle" /\ Fallback(ad.finder, ad.mode).some

\* the sub-operations invoked so far, the one under way included
Invoked == Len(ad.calls) + (IF ad.pc = "await" THEN 1 ELSE 0)

\* a sub-operation that failed: no key, send() failed, or json() failed
FailedCall(c) == c.shape \in {"none", "transport", "not_json"}

\* C26: a sub-operation that fails (transport error, JSON decoding error,
\* missing places API key) returns an error, that error is what find
\* returns (an error, not an empty list), and no sub-operation is invoked
\* after it: a failed geocode step is not followed by the fallback step
C26_FailureEndsFind ==
    ad.pc # "idle" =>
        \A k \in 1..Len(ad.calls) :
            FailedCall(ad.calls[k]) =>
                /\ ad.calls[k].out.kind = "err"
                /\ Invoked = k
                /\ ad.pc = "done"
                /\ ad.ret = Some(ad.calls[k].out)

\* the geocode step of GeoText met a transport error and find returned it
C26_Witness ==
    /\ ad.pc = "done"
    /\ ad.finder = "google" /\ ad.mode = "GeoText"
    /\ Len(ad.calls) = 1
    /\ ad.calls[1].op = "google.find_geo"
    /\ ad.calls[1].shape = "transport"
    /\ ad.ret = Some(FindErr("transport"))

\* C27: in the composite modes the second sub-operation is invoked iff the
\* geocode sub-operation returned successfully with an empty list; a
\* non-empty list of geocode is the adapter's result and the second
\* sub-operation is not called
C27_FallbackIffGeocodeEmpty ==
    (Composite /\ Len(ad.calls) >= 1) =>
        LET geo == ad.calls[1]
        IN  /\ geo.op \in {"google.find_geo", "yandex.find_geo"}
            /\ Invoked <= 2
            /\ Invoked = 2 <=> geo.out = FindOk(<<>>)
            /\ Len(ad.calls) = 2 =>
                  /\ ad.calls[2].op = Fallback(ad.finder, ad.mode).value
                  /\ ad.ret = Some(ad.calls[2].out)
            /\ (geo.out.kind = "ok" /\ geo.out.locs # <<>>) =>
                  /\ ad.pc = "done"
                  /\ ad.ret = Some(geo.out)

\* geocode found nothing, Text Search was asked and found a place
C27_Witness ==
    /\ ad.pc = "done"
    /\ ad.finder = "google" /\ ad.mode = "GeoText"
    /\ Len(ad.calls) = 2
    /\ ad.calls[1].out = FindOk(<<>>)
    /\ ad.calls[2].op = "google.find_text"
    /\ ad.ret.value.kind = "ok" /\ Len(ad.ret.value.locs) = 1

\* C28: for every adapter, a JSON response whose payload lacks the expected
\* result array yields an empty list: no panic and no error
C28_NoArrayIsEmptyList ==
    ad.pc # "idle" =>
        \A k \in 1..Len(ad.calls) :
            ad.calls[k].shape = "no_array" => ad.calls[k].out = FindOk(<<>>)

\* the member of an element at the end of a path of keys
RECURSIVE Member(_, _)
Member(v, path) == IF path = <<>> THEN v ELSE Member(Idx(v, Head(path)), Tail(path))

IsText(v) == v.t = "str"
IsNumber(v) == v.t = "num"
\* a string that reads as a number
IsNumeral(s) == s # <<>> /\ \A i \in 1..Len(s) : s[i] \in Digits

\* where each provider puts the address
AddressOf(op, e) ==
    CASE op \in {"google.find_geo", "google.find_place", "google.find_text"} ->
            <<Member(e, <<"formatted_address">>)>>
      [] op = "yandex.find_geo" ->
            <<Member(e, <<"GeoObject", "metaDataProperty", "GeocoderMetaData", "text">>)>>
      [] op = "yandex.find_place" ->
            <<Member(e, <<"properties", "name">>), Member(e, <<"properties", "description">>)>>
      [] op = "osm.find" -> <<Member(e, <<"display_name">>)>>

\* the coordinates of an element as <<latitude, longitude>>, or <<>> when
\* the element lacks one of them
CoordinatesOf(op, e) ==
    CASE op \in {"google.find_geo", "google.find_place", "google.find_text"} ->
            LET lat == Member(e, <<"geometry", "location", "lat">>)
                lng == Member(e, <<"geometry", "location", "lng">>)
            IN  IF IsNumber(lat) /\ IsNumber(lng) THEN <<lat.n, lng.n>> ELSE <<>>
      [] op = "yandex.find_geo" ->
            LET pos == Member(e, <<"GeoObject", "Point", "pos">>)
                pieces == IF IsText(pos) THEN SplitSpace(pos.s) ELSE <<>>
            IN  IF Len(pieces) >= 2 /\ IsNumeral(pieces[1]) /\ IsNumeral(pieces[2])
                THEN <<Dec(FALSE, DigitsValue(pieces[2]), <<>>),
                       Dec(FALSE, DigitsValue(pieces[1]), <<>>)>>
                ELSE <<>>
      [] op = "yandex.find_place" ->
            LET c == Member(e, <<"geometry", "coordinates">>)
            IN  IF c.t = "arr" /\ Len(c.a) >= 2 /\ IsNumber(c.a[1]) /\ IsNumber(c.a[2])
                THEN <<c.a[2].n, c.a[1].n>> ELSE <<>>
      [] op = "osm.find" ->
            LET lat == Member(e, <<"lat">>)
                lon == Member(e, <<"lon">>)
            IN  IF IsText(lat) /\ IsText(lon) /\ IsNumeral(lat.s) /\ IsNumeral(lon.s)
                THEN <<Dec(FALSE, DigitsValue(lat.s), <<>>),
                       Dec(FALSE, DigitsValue(lon.s), <<>>)>>
                ELSE <<>>

\* an element with the address and both coordinates
WellFormed(op, e) ==
    /\ \A i \in 1..Len(AddressOf(op, e)) : IsText(AddressOf(op, e)[i])
    /\ CoordinatesOf(op, e) # <<>>

\* C29: the result of an adapter is the sequence of the well-formed
\* elements of the provider's result array, in the provider's order, each
\* with its own address and coordinates; an element that lacks the address
\* or a coordinate is omitted and the others stay as they are
C29_ResultIsWellFormedElements ==
    (ad.pc = "done" /\ ad.ret.value.kind = "ok") =>
        LET op == ad.calls[Len(ad.calls)].op
            kept == SelectSeq(ad.elems, LAMBDA e : WellFormed(op, e))
            locs == ad.ret.value.locs
        IN  /\ Len(locs) = Len(kept)
            /\ \A i \in 1..Len(kept) :
                  LET address == AddressOf(op, kept[i])
                  IN  /\ locs[i].address =
                            IF Len(address) = 1 THEN address[1].s
                            ELSE address[1].s \o <<",", " ">> \o address[2].s
                      /\ <<locs[i].latitude, locs[i].longitude>> = CoordinatesOf(op, kept[i])

\* a malformed element between two well-formed ones was dropped and the two
\* kept their order
C29_Witness ==
    /\ ad.pc = "done"
    /\ ad.finder = "osm"
    /\ Len(ad.elems) = 2
    /\ ~WellFormed("osm.find", ad.elems[1])
    /\ WellFormed("osm.find", ad.elems[2])
    /\ ad.ret = Some(FindOk(<<LocationOf(<<"B">>, One, Eleven)>>))

\* ------------------------------------------------------------------
\* Freshness of the response cache (checked under SpecCacheAging)
\* ------------------------------------------------------------------
\* the lookup under way has read an entry from the store
EntryRead == mlog.op = "get" /\ mlog.ret.ok /\ mlog.ret.value.some

\* the request under way was answered from the cache
ServedFromCache ==
    /\ hc.pc = "done"
    /\ hc.out.some
    /\ hc.out.value.ok
    /\ hc.out.value.value.x_cache = "HIT"

\* the entry read is past the freshness lifetime of its policy
EntryStale == EntryRead /\ ~Fresh(mlog.ret.value.value[2], At(hage, hc.key, 0))

C31_DeleteFailsOpen ==
    (mlog.op = "delete" /\ mlog.fault # "none") => mlog.ret.ok

\* ------------------------------------------------------------------
\* Response counters of the adapters (checked under SpecAdapters)
\* ------------------------------------------------------------------
\* a sub-operation whose send() returned a response
Received(c) == c.shape \in {"not_json", "no_array", "array"}

\* C32: for every response received exactly one of the two response
\* counters goes up by one, the served-from-cache counter iff the response
\* carries the cache-hit marker and the served-from-origin counter
\* otherwise; a request that fails before a response is received moves
\* neither; cached + fetched never exceeds the requests counted
C32_OneResponseCounterPerResponse ==
    [][ad'.pc # "idle" =>
        /\ ad'.counters.cached + ad'.counters.fetched <= ad'.counters.requests
        /\ (ad.pc = "await" /\ Len(ad'.calls) = Len(ad.calls) + 1) =>
              LET c == ad'.calls[Len(ad'.calls)]
                  dCached == ad'.counters.cached - ad.counters.cached
                  dFetched == ad'.counters.fetched - ad.counters.fetched
              IN  IF ~Received(c) THEN dCached = 0 /\ dFetched = 0
                  ELSE IF c.x_cache = Some("HIT") THEN dCached = 1 /\ dFetched = 0
                  ELSE dCached = 0 /\ dFetched = 1]_vars

\* geocode was answered from the origin with nothing, the fallback from the
\* cache: one count each, two requests
C32_Witness ==
    /\ ad.pc = "done"
    /\ Len(ad.calls) = 2
    /\ ad.calls[1].x_cache = Some("MISS")
    /\ ad.calls[2].x_cache = Some("HIT")
    /\ ad.counters = [requests |-> 2, cached |-> 1, fetched |-> 1]

\* ------------------------------------------------------------------
\* The sweep and the writes of the profile cache client (checked under
\* SpecUsers)
\* ------------------------------------------------------------------
\* task t runs clean_up_cache in this step
Sweeps(t) == ut[t].pc = "idle" /\ ut'[t].pc = "done" /\ ut'[t].op = "clean_up_cache"

\* the age of an entry in whole seconds
WholeSeconds(usr) == (instant - usr.updated_at) \div InstantsPerSec

\* C33: clean_up_cache removes every entry whose age in whole seconds is
\* above the TTL and keeps, unchanged, every entry whose age in whole
\* seconds is at most the TTL; it calls nothing remote
C33_SweepKeepsFresh ==
    [][\A t \in Tasks :
          Sweeps(t) =>
              /\ \A uid \in DOMAIN cache :
                    IF WholeSeconds(cache[uid]) <= USER_CACHE_TIME_SECS
                    THEN uid \in DOMAIN cache' /\ cache'[uid] = cache[uid]
                    ELSE uid \notin DOMAIN cache'
              /\ DOMAIN cache' \subseteq DOMAIN cache
              /\ inner' = inner
              /\ \A o \in Tasks \ {t} : ut'[o] = ut[o]]_vars

\* a sweep has dropped the entry of u1
C33_Witness ==
    \E t \in Tasks :
        /\ ut[t].pc = "done"
        /\ ut[t].op = "clean_up_cache"
        /\ ut[t].swept = {"u1"}
        /\ "u1" \notin DOMAIN cache

\* a sweep has kept the entry of u1 in the last second of its life
C33_WitnessKept ==
    \E t \in Tasks :
        /\ ut[t].pc = "done"
        /\ ut[t].op = "clean_up_cache"
        /\ ut[t].swept = {}
        /\ "u1" \in DOMAIN cache
        /\ WholeSeconds(cache["u1"]) = USER_CACHE_TIME_SECS

\* ------------------------------------------------------------------
\* The expiry of the limiter's counters (checked under SpecLimiter)
\* ------------------------------------------------------------------
\* no counter key of the store is without an expiry
EveryCounterExpires == \A u \in Uids : kv[u].exists => kv[u].ttl # NoTtl

\* C34 as stated: after every check that reached the store the identity's
\* counter key exists with a time to live equal to the timeframe, and no
\* reachable store state holds a counter key without an expiry
C34_CounterAlwaysHasTtl ==
    [][/\ EveryCounterExpires /\ EveryCounterExpires'
       /\ \A c \in Clients :
             Executes(c) =>
                 /\ kv'[cl[c].uid].exists
                 /\ kv'[cl[c].uid].ttl = timeframe]_vars

\* C34 amended: the same for a positive timeframe; with a timeframe of zero
\* the key is gone as soon as the pipeline has run
C34_CounterHasTtlOrIsGone ==
    [][/\ EveryCounterExpires /\ EveryCounterExpires'
       /\ \A c \in Clients :
             Executes(c) =>
                 IF timeframe > 0
                 THEN /\ kv'[cl[c].uid].exists
                      /\ kv'[cl[c].uid].ttl = timeframe
                 ELSE ~kv'[cl[c].uid].exists]_vars

\* two checks interleaved, both executed: the key holds 2 and the full
\* time to live
C34_Witness ==
    /\ timeframe = 1
    /\ cl["t1"].pc = "recv" /\ cl["t1"].executed
    /\ cl["t2"].pc = "recv" /\ cl["t2"].executed
    /\ kv["u1"] = [exists |-> TRUE, val |-> 2, ttl |-> 1]

\* the remote answer to the get of task t arrives in this step
Receives(t) == ut[t].pc = "get_resp" /\ ut'[t].pc # "get_resp"

\* C35: get caches the outcome of the remote call iff it is a user found or
\* NotFound, with the time of the lookup; on any other remote error get
\* returns that error and leaves the cache as it was
C35_CachesFoundAndNotFoundOnly ==
    [][\A t \in Tasks :
          Receives(t) =>
              LET uid == ut[t].uid
                  resp == ut[t].resp
              IN  IF resp.ok
                  THEN cache' = [u \in DOMAIN cache \cup {uid} |->
                                    IF u = uid
                                    THEN [user |-> Some(resp.value), updated_at |-> instant]
                                    ELSE cache[u]]
                  ELSE IF resp.error = "NotFound"
                  THEN cache' = [u \in DOMAIN cache \cup {uid} |->
                                    IF u = uid
                                    THEN [user |-> None, updated_at |-> instant]
                                    ELSE cache[u]]
                  ELSE /\ cache' = cache
                       /\ ut'[t].pc = "done"
                       /\ ut'[t].ret = resp]_vars

\* a get of a registered user met an unavailable service after time had
\* passed: it returned the error and the cache holds nothing for the user
C35_Witness ==
    \E t \in Tasks :
        /\ ut[t].pc = "done"
        /\ ut[t].op = "get"
        /\ ut[t].ret = Err("Unavailable")
        /\ ut[t].uid \in DOMAIN inner
        /\ ut[t].uid \notin DOMAIN cache
        /\ instant > 0

\* set_language or set_location of task t returns an error in this step
SetFails(t) ==
    /\ ut[t].pc # "done"
    /\ ut'[t].pc = "done"
    /\ ut'[t].op = "set"
    /\ ~ut'[t].ret.ok

\* the update of task t is on its way to the service or back
Updating(t) == ut[t].pc \in {"update", "update_resp"}

\* C36: set_language and set_location send the update only for an identity
\* that resolved to a registered user; for an unregistered identity they
\* return not found without an update call; when they return an error they
\* do not remove the identity's cache entry
C36_UpdateOnlyForRegistered ==
    [][\A t \in Tasks :
          /\ Updating(t) =>
                /\ ut[t].op = "set"
                /\ ut[t].uid \in DOMAIN inner
                /\ ut[t].id = Some(inner[ut[t].uid].id)
          /\ (ut[t].pc \in {"idle", "get_resp"} /\ ut'[t].pc \notin {"idle", "get_resp"}
                /\ ut'[t].op = "set" /\ ut'[t].uid \notin DOMAIN inner) =>
                /\ ut'[t].pc \in {"get", "done"}
                /\ ut'[t].pc = "done" => ut'[t].ret \in {Err("NotFound"), Err("Unavailable")}
          /\ SetFails(t) =>
                /\ ut'[t].uid \in DOMAIN cache => ut'[t].uid \in DOMAIN cache'
                /\ ut[t].pc = "update_resp" => cache' = cache]_vars

\* the update of a registered user failed after a fresh entry had been
\* read: the error is returned and the entry is still there
C36_Witness ==
    \E t \in Tasks :
        /\ ut[t].pc = "done"
        /\ ut[t].op = "set"
        /\ ut[t].ret = Err("Unavailable")
        /\ ut[t].uid \in DOMAIN cache
        /\ cache[ut[t].uid].user.some

\* ------------------------------------------------------------------
\* The query check of the inline entry point (checked under SpecInline)
\* ------------------------------------------------------------------
\* the inline query being handled fails is_query_correct
Rejected == ih.pc # "idle" /\ ~IsQueryCorrect(ih.mode, ih.q.query)

\* C37: a query rejected by is_query_correct never reaches the limiter:
\* while it is handled no check is started, no counter goes up and no
\* window is extended, and the answer is the empty list
C37_RejectedQuerySkipsLimiter ==
    [][Rejected =>
        /\ ih.allowed = None
        /\ cl' = cl
        /\ served' = served
        /\ granted' = granted
        /\ \A u \in Uids :
              /\ CounterOf(u) >= IF kv'[u].exists THEN kv'[u].val ELSE 0
              /\ kv'[u].exists => (kv[u].exists /\ kv'[u].ttl <= kv[u].ttl)
        /\ ih.pc = "end" => ih.answer = Some(<<>>)]_vars

\* a rejected query was answered with the empty list while the sender's
\* counter, left by an earlier query, stayed as it was
C37_Witness ==
    /\ Rejected
    /\ ih.pc = "end"
    /\ ih.answer = Some(<<>>)
    /\ kv[ih.q.from.id] = [exists |-> TRUE, val |-> 1, ttl |-> InlineTimeframe]

\* ------------------------------------------------------------------
\* Callback handlers of the options (handlers/options)
\* ------------------------------------------------------------------
CallbackFrame == UNCHANGED <<chainVars, findVars, resolveVars, limiterVars, cacheVars, userVars, inlineVars, fnVars, adapterVars>>

\* users that press buttons and users that callback data name
CallbackUids == {"u1", "u2"}

\* location::callback_handler, consent::callback_handler and
\* cancellation_handler
CallbackKinds == {"confirmation", "consent", "cancel"}

\* CallbackQuery.message: absent, a regular message with or without text, or
\* an inaccessible one
CallbackMessages == {"None", "RegularText", "RegularNoText", "Inaccessible"}

\* CallbackQuery.from.language_code and the language of the stored profile
CallbackHints == {None, Some(<<"e", "n">>), Some(<<"e">>)}
CallbackProfileCodes == {None, Some(<<"r", "u">>)}

CallbackQueries ==
    [from : [id : CallbackUids, language_code : CallbackHints], message : CallbackMessages]

\* the parsed callback data: the embedded user id and, for a consent, the
\* saved command ("lang:<code>" or "loc")
CallbackData(kind) ==
    [uid : CallbackUids, command : IF kind = "consent" THEN {"lang", "loc"} ELSE {"none"}]

\* the operations of UserServiceClient that change a profile
Mutations == {"set_location", "set_language", "register"}

\* a call of the client for uid
ClientCall(op, uid) == [op |-> op, uid |-> uid]

\* requests to the bot API
Alert(text) == [method |-> "answerCallbackQuery", show_alert |-> TRUE, text |-> text]
Notice(text) == [method |-> "answerCallbackQuery", show_alert |-> FALSE, text |-> text]
EditText(text) == [method |-> "editMessageText", text |-> text]
SendMessage(text) == [method |-> "sendMessage", text |-> text]
DeleteMessage == [method |-> "deleteMessage"]

\* how many bot requests of one step may succeed before one fails
MaxDeliveries == 2

\* requests awaited one after another with `?`: the first `delivered` of them
\* succeed, the next one fails and ends the handler
Requested(requests, delivered) ==
    SubSeq(requests, 1, IF delivered < Len(requests) THEN delivered + 1 ELSE Len(requests))

AllDelivered(requests, delivered) == delivered >= Len(requests)

\* the handler sends requests and then returns or goes on at pc
AfterRequests(requests, delivered, pc) ==
    [cb EXCEPT !.requests = cb.requests \o Requested(requests, delivered),
               !.pc = IF AllDelivered(requests, delivered) THEN pc ELSE "end",
               !.ret = IF AllDelivered(requests, delivered)
                       THEN (IF pc = "end" THEN Ok("unit") ELSE None)
                       ELSE Err("RequestError")]

\* a callback handler is entered with a query whose data parsed
CallbackHandler(kind, q, data, usr_client) ==
    /\ cb.pc = "idle"
    /\ cb' = [pc |-> "lang", kind |-> kind, q |-> q, data |-> data,
              usr_client |-> usr_client, lang_code |-> None,
              calls |-> <<>>, requests |-> <<>>, ret |-> None]
    /\ CallbackFrame

\* preprocess_callback: ensure_lang_code for the pressing user
PreprocessLang(profile_code) ==
    /\ cb.pc = "lang"
    /\ cb.usr_client = "Disabled" => profile_code = None
    /\ LET hint == cb.q.from.language_code
           calls == IF cb.usr_client = "Connected"
                    THEN Append(cb.calls, ClientCall("get", cb.q.from.id))
                    ELSE cb.calls
       IN  cb' = IF EnsureLangCodePanics(profile_code, hint)
                 THEN [cb EXCEPT !.pc = "panicked", !.calls = calls]
                 ELSE [cb EXCEPT !.pc = "check", !.calls = calls,
                                 !.lang_code = Some(EnsureLangCode(profile_code, hint))]
    /\ CallbackFrame

\* variant: the embedded user id is not compared with the pressing user's
PreprocessCallback_NoOwnerCheck(delivered) ==
    /\ cb.pc = "check"
    /\ cb' = IF cb.usr_client = "Disabled"
             THEN AfterRequests(<<Alert("error.service.user.disabled")>>, delivered, "end")
             ELSE [cb EXCEPT !.pc = "processed"]
    /\ CallbackFrame

\* preprocess_callback after ensure_lang_code: ErrorSent for another
\* person's button and for a disabled user service, Processed otherwise
PreprocessCallback(delivered) ==
    /\ cb.pc = "check"
    /\ cb' = IF cb.data.uid # cb.q.from.id
             THEN AfterRequests(<<Alert("error.callbacks.another-person")>>, delivered, "end")
             ELSE IF cb.usr_client = "Disabled"
             THEN AfterRequests(<<Alert("error.service.user.disabled")>>, delivered, "end")
             ELSE [cb EXCEPT !.pc = "processed"]
    /\ CallbackFrame

\* the client call op for the pressing user has been made and failed
FailedClientCall(op) ==
    [cb EXCEPT !.calls = Append(cb.calls, ClientCall(op, cb.q.from.id)),
               !.pc = "end", !.ret = Err("Status")]

\* location::callback_handler after preprocess_callback
LocationCallbackHandler(served_ok, delivered) ==
    /\ cb.pc = "processed"
    /\ cb.kind = "confirmation"
    /\ cb' = IF ~served_ok
             THEN FailedClientCall("set_location")
             ELSE [AfterRequests(
                       <<IF cb.q.message # "None"
                         THEN EditText("set-option.location.success")
                         ELSE Alert("set-option.location.success")>>,
                       delivered, "end")
                   EXCEPT !.calls = Append(cb.calls, ClientCall("set_location", cb.q.from.id))]
    /\ CallbackFrame

\* consent::callback_handler after preprocess_callback: the match on
\* query.message with the registration
ConsentCallbackHandler(served_ok, delivered) ==
    /\ cb.pc = "processed"
    /\ cb.kind = "consent"
    /\ cb' = CASE cb.q.message = "RegularText" ->
                    IF ~served_ok
                    THEN FailedClientCall("register")
                    ELSE [AfterRequests(
                              <<EditText("registration.consent.appendix"),
                                Notice("registration.consent.ok")>>,
                              delivered, "command")
                          EXCEPT !.calls = Append(cb.calls, ClientCall("register", cb.q.from.id))]
               [] cb.q.message = "Inaccessible" ->
                    AfterRequests(<<Alert("error.old-message")>>, delivered, "command")
               [] OTHER ->
                    [cb EXCEPT !.pc = "end", !.ret = Err("anyhow")]
    /\ CallbackFrame

\* consent::callback_handler: the saved command is carried out
ConsentCommand(served_ok, delivered) ==
    /\ cb.pc = "command"
    /\ cb' = IF cb.data.command = "lang"
             THEN IF ~served_ok
                  THEN FailedClientCall("set_language")
                  ELSE [AfterRequests(<<SendMessage("set-option.language.success")>>,
                                      delivered, "end")
                        EXCEPT !.calls = Append(cb.calls, ClientCall("set_language", cb.q.from.id))]
             ELSE AfterRequests(<<SendMessage("set-option.location.message.text")>>,
                                delivered, "end")
    /\ CallbackFrame

\* cancellation_handler after preprocess_callback
CancellationHandler(delivered) ==
    /\ cb.pc = "processed"
    /\ cb.kind = "cancel"
    /\ cb' = AfterRequests(
                 IF cb.q.message # "None"
                 THEN <<SendMessage("set-option.location.remove-keyboard"), DeleteMessage>>
                 ELSE <<>>,
                 delivered, "end")
    /\ CallbackFrame

\* the handler has returned or its task has panicked
CallbackReturn ==
    /\ cb.pc \in {"end", "panicked"}
    /\ cb' = NoCallback
    /\ CallbackFrame

InitCallbacks ==
    /\ InitChainIdle
    /\ InitLimiterIdle
    /\ InitCacheIdle
    /\ InitUsersIdle
    /\ InitInlineIdle
    /\ InitFnIdle
    /\ InitAdapterIdle
    /\ InitCallbackIdle

NextCallbacks ==
    \/ \E kind \in CallbackKinds, usr_client \in UserServices :
          \E q \in CallbackQueries, data \in CallbackData(kind) :
              CallbackHandler(kind, q, data, usr_client)
    \/ \E profile_code \in CallbackProfileCodes : PreprocessLang(profile_code)
    \/ \E delivered \in 0..MaxDeliveries : PreprocessCallback(delivered)
    \/ \E served_ok \in BOOLEAN, delivered \in 0..MaxDeliveries :
          LocationCallbackHandler(served_ok, delivered)
    \/ \E served_ok \in BOOLEAN, delivered \in 0..MaxDeliveries :
          ConsentCallbackHandler(served_ok, delivered)
    \/ \E served_ok \in BOOLEAN, delivered \in 0..MaxDeliveries :
          ConsentCommand(served_ok, delivered)
    \/ \E delivered \in 0..MaxDeliveries : CancellationHandler(delivered)
    \/ CallbackReturn

SpecCallbacks == InitCallbacks /\ [][NextCallbacks]_vars

\* a callback is being handled
Pressed == cb.pc # "idle"

\* the button carries another user's id
AnotherPerson == cb.data.uid # cb.q.from.id

\* the calls made so far that change a profile
MutationsMade == {i \in 1..Len(cb.calls) : cb.calls[i].op \in Mutations}

\* the requests sent so far are one alert with an error text
ErrorAlertOnly ==
    /\ Len(cb.requests) = 1
    /\ cb.requests[1] \in {Alert("error.callbacks.another-person"),
                           Alert("error.service.user.disabled")}

C38_WitnessOwn ==
    /\ Pressed
    /\ ~AnotherPerson
    /\ cb.pc = "end"
    /\ {cb.calls[i].op : i \in MutationsMade} = {"register", "set_language"}

\* ------------------------------------------------------------------
\* Totality of ensure_lang_code (checked under SpecFunctions)
\* ------------------------------------------------------------------
\* C39: ensure_lang_code returns a language code without panicking for every
\* profile language and platform hint, a chosen code of fewer than two
\* characters included
C39_EnsureLangCodeIsTotal ==
    (pf.op = "ensure_lang_code" /\ pf.pc = "returned") =>
        pf.out \in {Returned(c) : c \in Codes \cup {<<"e", "n">>, <<"r", "u">>}}

====
